---- MODULE Spec2Model ----
(***************************************************************************)
(* Gesture event pipeline of ha-gesture-control:                           *)
(*   goose_controller/debouncer.py        GestureDebouncer,                *)
(*                                        HoldTimeValidator                *)
(*   goose_controller/gesture_handler.py  GestureHandler                   *)
(*   goose_controller/config_manager.py   ConfigManager                    *)
(*   goose_controller/ha_mcp_client.py    HomeAssistantMCPClient,          *)
(*                                        SyncHomeAssistantClient          *)
(*                                                                         *)
(* Time and confidence are integers in tenths (0.5 s = 5, 0.8 = 8).        *)
(* Every connection has its own worker thread that runs process_gesture;   *)
(* the threads share the handler, the two gates and the statistics without *)
(* any lock, so a worker's call is a sequence of steps that other workers  *)
(* and the clock interleave with.  reload_config has no caller in the      *)
(* program; the specifications that offer it run it as one more thread.    *)
(*                                                                         *)
(* Spec, SeqSpec, ScenarioSpec and ObserverSpec start from a serving       *)
(* socket layer and take the events as they reach process_gesture;         *)
(* FramingSpec adds the handler of one connection reading a byte stream,   *)
(* ServerSpec and ShutdownSpec the server thread, the connections and the  *)
(* shutdown.  A worker is preempted between statements; StatsSpec also     *)
(* preempts it inside the "+= 1" of lines 110 and 161 and of line 73 of    *)
(* debouncer.py.  GateSpec adds a thread that calls clear_gesture and      *)
(* reset_gesture; ManagerSpec and EditSpec are the ConfigManager under     *)
(* reloads and under the calls that edit its mappings; TwinSpec is two     *)
(* handlers that get the same events with timestamp fields of their own.   *)
(***************************************************************************)
EXTENDS Integers, Sequences, FiniteSets, TLC

\* ------------------------------------------------------------------ bounds
MaxTime == 2          \* last clock value of Spec and ObserverSpec
MaxSeqTime == 1       \* last clock value of SeqSpec
ScenarioEnd == 27     \* last clock value of ScenarioSpec (2.7 s)
MaxEvents == 3        \* events handed to process_gesture in one behaviour
MaxReloads == 1       \* reload_config calls in one behaviour
MaxMappings == 3      \* length up to which add_gesture_mapping is called

\* ------------------------------------------------------------------ inputs
Workers == {"conn1", "conn2"}
FirstWorker == "conn1"
Event(gesture, hand, confidence) ==
    [gesture |-> gesture, hand |-> hand, confidence |-> confidence]

Events == {Event("Open_Palm", "Right", 9), Event("Open_Palm", "Right", 7),
           Event("Thumb_Up", "Left", 9)}

None == [none |-> TRUE]

\* A call left by an exception.
Raised == [raised |-> TRUE]

\* No value of a counter read and waiting to be written back.
NotRead == -1

\* A key that a dictionary does not have (dict.get gives None for it).
Absent == "<absent>"

Action(entity_id, service) == [entity_id |-> entity_id, service |-> service]

HomeAssistant == {"mcp_url", "token_env_var"}

Mapping(name, gesture, hand, action) ==
    [name |-> name, gesture |-> gesture, hand |-> hand, action |-> action]

ConfigA ==
    [homeassistant |-> HomeAssistant,
     confidence_threshold |-> 8, cooldown_seconds |-> 2, min_hold_time |-> 1,
     gesture_mappings |->
        << Mapping("palm_any", "Open_Palm", "Either",
                   Action("light.living_room", "toggle")),
           Mapping("palm_right", "Open_Palm", "Right",
                   Action("switch.fan", "turn_on")) >>]

\* The second mapping passes validate_config (both keys are there) with an
\* empty entity_id.
ConfigB ==
    [homeassistant |-> HomeAssistant,
     confidence_threshold |-> 5, cooldown_seconds |-> 1, min_hold_time |-> 0,
     gesture_mappings |->
        << Mapping("thumb_left", "Thumb_Up", "Left",
                   Action("light.desk", "turn_off")),
           Mapping("palm_empty", "Open_Palm", "Right",
                   Action("", "turn_on")) >>]

\* A file that parses and fails validate_config: an action without service.
ConfigC ==
    [homeassistant |-> HomeAssistant,
     confidence_threshold |-> 5, cooldown_seconds |-> 1, min_hold_time |-> 0,
     gesture_mappings |->
        << Mapping("palm_right", "Open_Palm", "Right",
                   Action("switch.fan", Absent)) >>]

ScenarioConfig ==
    [homeassistant |-> HomeAssistant,
     confidence_threshold |-> 8, cooldown_seconds |-> 20, min_hold_time |-> 5,
     gesture_mappings |->
        << Mapping("palm_right", "Open_Palm", "Right",
                   Action("light.living_room", "toggle")) >>]

ConfigFiles == {ConfigA, ConfigB}

\* Documents that parse and that validate_config rejects, one for each of
\* its checks (besides ConfigC): a key that the YAML document does not have
\* is a field that the record does not have.
NoHomeAssistant == [ConfigB EXCEPT !.homeassistant = {}]

NoToken == [ConfigB EXCEPT !.homeassistant = {"mcp_url"}]

NoGestureRecognition ==
    [homeassistant |-> HomeAssistant,
     gesture_mappings |-> ConfigB.gesture_mappings]

ThresholdTooHigh == [ConfigB EXCEPT !.confidence_threshold = 11]

ThresholdNegative == [ConfigB EXCEPT !.confidence_threshold = -1]

NamelessMapping ==
    [ConfigB EXCEPT !.gesture_mappings =
        << [gesture |-> "Thumb_Up", hand |-> "Left",
            action |-> Action("light.desk", "turn_off")] >>]

ActionlessMapping ==
    [ConfigB EXCEPT !.gesture_mappings =
        << [name |-> "thumb_left", gesture |-> "Thumb_Up", hand |-> "Left"] >>]

BothHands ==
    [ConfigB EXCEPT !.gesture_mappings =
        << Mapping("thumb_both", "Thumb_Up", "Both",
                   Action("light.desk", "turn_off")) >>]

NoEntity ==
    [ConfigB EXCEPT !.gesture_mappings =
        << Mapping("thumb_left", "Thumb_Up", "Left",
                   Action(Absent, "turn_off")) >>]

InvalidConfigs ==
    {ConfigC, NoHomeAssistant, NoToken, NoGestureRecognition,
     ThresholdTooHigh, ThresholdNegative, NamelessMapping, ActionlessMapping,
     BothHands, NoEntity}

\* What load_config can find at config_path: no file, a file that is not
\* YAML, or a file that parses to a configuration.
MissingFile == [kind |-> "missing"]

BrokenFile == [kind |-> "unparsable"]

YamlFile(config) == [kind |-> "yaml", config |-> config]

Files ==
    {MissingFile, BrokenFile}
        \cup {YamlFile(config) : config \in ConfigFiles \cup {ConfigC}}

\* The files of Files and a file for every document of InvalidConfigs.
AnyFiles == Files \cup {YamlFile(config) : config \in InvalidConfigs}

\* What the HTTP request of call_service can do: answer 200, answer another
\* status, time out, fail with another httpx.HTTPError.
ClientOutcomes == {"ok", "status", "timeout", "http_error"}

\* ------------------------------------------------------------------- state
VARIABLES
    now,                  \* time.time()
    gesture_settings,     \* ConfigManager.gesture_settings
    gesture_mappings,     \* ConfigManager.gesture_mappings
    confidence_threshold, \* GestureHandler.confidence_threshold
    cooldown_seconds,     \* GestureDebouncer.cooldown_seconds
    min_hold_time,        \* HoldTimeValidator.min_hold_time
    last_triggers,        \* GestureDebouncer.last_triggers
    gesture_start_times,  \* HoldTimeValidator.gesture_start_times
    total_gestures,       \* GestureDebouncer.total_gestures
    debounced_gestures,   \* GestureDebouncer.debounced_gestures
    triggered_gestures,   \* GestureDebouncer.triggered_gestures
    stats,                \* GestureHandler.stats
    pc,                   \* per worker: where it is in process_gesture
    gesture_data,         \* per worker: the event being processed
    current_time,         \* per worker: the gate's local current_time
    hold_ret,             \* per worker: last return of update_gesture
    mapping,              \* per worker: the local mapping
    result,               \* per worker: last return of process_gesture
    rpc,                  \* where reload_config is
    reloads,              \* reload_config calls so far
    loaded,               \* return value of the latest load_config
    callbacks,            \* how gesture_callback and action_callback behave
    installed,            \* history: configurations load_config has assigned
    last_good,            \* history: configuration of the last load that
                          \* returned True
    callback_errors,      \* history: exceptions of callbacks caught and logged
    gesture_notified,     \* history: number of gesture_callback invocations
    action_seen,          \* history, per worker: what action_callback was
                          \* given during the worker's latest call
    executed,             \* history, per worker: what execute_action did
                          \* during the worker's latest call
    service_calls,        \* history: number of call_service invocations
    stages,               \* history, per worker: gates the running call passed
    trigger_log,          \* history: the should_trigger calls that returned True
    seen,                 \* history, per worker: what should_trigger compared
    events_in,            \* history: number of process_gesture calls so far
    scenario,             \* history: progress of the end-to-end scenario
    stat_read,            \* per worker: the value of stats['gestures_received']
                          \* that its running "+= 1" has read and not yet
                          \* written back
    last_call,            \* the latest call made on the debouncer, the
                          \* hold-time validator or the ConfigManager from
                          \* outside process_gesture, with what it returned
    twin,                 \* two handlers of their own that are given the same
                          \* events at the same times, with timestamp fields
                          \* that may differ
    socket_running,       \* GestureHandler.socket_running
    acceptor,             \* where the thread of _socket_server_loop is
    main,                 \* where the main thread is (start, stop, cleanup)
    client_closed,        \* ha_client.close() has closed the HTTP client
    rd,                   \* per connection: where _handle_socket_client is
    wire,                 \* per connection: bytes the peer has yet to deliver
    buffer,               \* per connection: the local buffer (decoded text)
    sent,                 \* history, per connection: all bytes of the peer
    delivered,            \* history, per connection: what became of each
                          \* non-blank line taken from the buffer
    ending                \* history, per connection: why the handler ended

vars == << now, gesture_settings, gesture_mappings, confidence_threshold,
           cooldown_seconds, min_hold_time, last_triggers, gesture_start_times,
           total_gestures, debounced_gestures, triggered_gestures, stats,
           pc, gesture_data, current_time, hold_ret, mapping, result,
           rpc, reloads, stages, trigger_log, seen, events_in,
           scenario, loaded, callbacks, installed, last_good, callback_errors,
           gesture_notified, action_seen, executed, service_calls,
           stat_read, last_call, twin, socket_running, acceptor, main,
           client_closed, rd, wire, buffer, sent, delivered, ending >>

\* Everything process_gesture and reload_config work on.
handlerVars == << now, gesture_settings, gesture_mappings,
                  confidence_threshold, cooldown_seconds, min_hold_time,
                  last_triggers, gesture_start_times, total_gestures,
                  debounced_gestures, triggered_gestures, stats, pc,
                  gesture_data, current_time, hold_ret, mapping, result, rpc,
                  reloads, stages, trigger_log, seen, events_in, scenario,
                  loaded, callbacks, installed, last_good, callback_errors,
                  gesture_notified, action_seen, executed, service_calls,
                  stat_read, last_call, twin >>

\* What no step of process_gesture, of reload_config or of the server
\* touches.
outsideVars == << last_call, twin >>

\* The socket server, its connections and the shutdown.
connVars == << rd, wire, buffer, sent, delivered, ending >>

serverVars == << socket_running, acceptor, main, client_closed, connVars >>

configVars == << gesture_settings, gesture_mappings, confidence_threshold,
                 cooldown_seconds, min_hold_time, rpc, reloads, loaded,
                 installed, last_good >>

observerVars == << callbacks, callback_errors, gesture_notified >>

dispatchVars == << action_seen, executed, service_calls >>

debouncerVars == << last_triggers, total_gestures, debounced_gestures,
                    triggered_gestures, trigger_log, seen >>

holdVars == << gesture_start_times, hold_ret >>

\* ----------------------------------------------------------------- helpers
Key(gesture, hand) == gesture \o "|" \o hand

KeyOf(event) == Key(event.gesture, event.hand)

Keys == {KeyOf(event) : event \in Events}

\* mutant: the value is stored for every key the dictionary has
PutEvery(dict, key, value) == [k \in DOMAIN dict \cup {key} |-> value]

\* dict[key] = value
Put(dict, key, value) ==
    [k \in DOMAIN dict \cup {key} |-> IF k = key THEN value ELSE dict[k]]

Inc(counters, name) == [counters EXCEPT ![name] = @ + 1]

\* config_manager.py 54: config.get('gesture_recognition', {})
Settings(config) ==
    IF "confidence_threshold" \in DOMAIN config
    THEN [confidence_threshold |-> config.confidence_threshold,
          cooldown_seconds |-> config.cooldown_seconds,
          min_hold_time |-> config.min_hold_time]
    ELSE << >>

get_confidence_threshold == gesture_settings.confidence_threshold

get_cooldown_seconds == gesture_settings.cooldown_seconds

get_min_hold_time == gesture_settings.min_hold_time

Matches(m, gesture, hand) ==
    /\ {"gesture", "hand"} \subseteq DOMAIN m
    /\ m.gesture = gesture
    /\ (m.hand = "Either" \/ m.hand = hand)

\* config_manager.py 185 and 189: mapping['gesture'] and, for a mapping of
\* the gesture, mapping['hand'] raise KeyError when the key is missing.
KeyError(m, gesture) ==
    \/ "gesture" \notin DOMAIN m
    \/ m.gesture = gesture /\ "hand" \notin DOMAIN m

\* mutants: a mapping for exactly the event's hand is preferred to an earlier
\* 'Either' mapping; an event without mapping gets the first mapping
get_mapping_exact_hand_first(gesture, hand) ==
    LET hits == {i \in 1..Len(gesture_mappings) :
                    Matches(gesture_mappings[i], gesture, hand)}
        exact == {i \in hits : gesture_mappings[i].hand = hand}
    IN  IF hits = {} THEN None
        ELSE IF exact # {}
             THEN gesture_mappings[CHOOSE i \in exact : \A j \in exact : i <= j]
             ELSE gesture_mappings[CHOOSE i \in hits : \A j \in hits : i <= j]

get_mapping_with_fallback(gesture, hand) ==
    LET hits == {i \in 1..Len(gesture_mappings) :
                    Matches(gesture_mappings[i], gesture, hand)}
    IN  IF hits = {} THEN gesture_mappings[1]
        ELSE gesture_mappings[CHOOSE i \in hits : \A j \in hits : i <= j]

\* config_manager.py 183-193: the loop stops at the first mapping that
\* matches or that lacks a key the loop reads.
get_mapping_for_gesture(gesture, hand) ==
    LET hits == {i \in 1..Len(gesture_mappings) :
                    \/ Matches(gesture_mappings[i], gesture, hand)
                    \/ KeyError(gesture_mappings[i], gesture)}
        first == CHOOSE i \in hits : \A j \in hits : i <= j
    IN  IF hits = {} THEN None
        ELSE IF KeyError(gesture_mappings[first], gesture) THEN Raised
        ELSE gesture_mappings[first]

\* mutant: the threshold is applied two tenths too low
BelowThresholdLax(confidence) == confidence < confidence_threshold - 2

\* gesture_handler.py 126
BelowThreshold(confidence) == confidence < confidence_threshold

\* mutant: a hold of exactly min_hold_time is rejected
HoldValidStrict(hold_duration) == hold_duration > min_hold_time

\* debouncer.py 235
HoldValid(hold_duration) == hold_duration >= min_hold_time

\* mutant: the first observation is judged against min_hold_time
NewGestureResultJudged == [is_valid |-> 0 >= min_hold_time, hold_duration |-> 0]

\* debouncer.py 229
NewGestureResult == [is_valid |-> FALSE, hold_duration |-> 0]

\* mutant (StartTimesRestarted): a satisfied hold restarts the timer
\* debouncer.py 231-237: the branch of update_gesture for a known key
\* computes the result and writes nothing.
StartTimesRestarted(key, is_valid) ==
    IF is_valid THEN Put(gesture_start_times, key, now) ELSE gesture_start_times

StartTimesAfterUpdate(key, is_valid) == gesture_start_times

\* mutants: the cooldown ends one tenth early; an elapsed time equal to the
\* cooldown is still debounced; the comparison is inverted
InCooldownShort(time_since_last) == time_since_last < cooldown_seconds - 1

InCooldownInclusive(time_since_last) == time_since_last <= cooldown_seconds

InCooldownInverted(time_since_last) == time_since_last > cooldown_seconds

\* debouncer.py 61
InCooldown(time_since_last) == time_since_last < cooldown_seconds

\* mutant (LastTriggersRefreshed): a debounced call restarts the cooldown
\* debouncer.py 61-69: the debounced branch of should_trigger counts the call
\* and writes no trigger time.
LastTriggersRefreshed(key) == Put(last_triggers, key, now)

LastTriggersAfterDebounce(key) == last_triggers

\* gesture_handler.py 118-119: the callback is called for every event, before
\* the confidence check.
\* mutant: only an event that passes the confidence check is broadcast
GestureCallbackDueAfterGate(confidence) == ~BelowThreshold(confidence)

GestureCallbackDue(confidence) == TRUE

\* What a callback can do when it is called.
CallbackOutcomes ==
    IF callbacks = "may_raise" THEN {"returns", "raises"} ELSE {"returns"}

\* gesture_handler.py 120-123 and 174-177: an exception of a callback is
\* caught and logged, it never leaves process_gesture.
\* mutant: the exception of a callback leaves process_gesture
PropagatesRaise(outcome) == outcome = "raises"

Propagates(outcome) == FALSE

Logged(kind, outcome) ==
    IF outcome = "raises" THEN Inc(callback_errors, kind) ELSE callback_errors

\* ha_mcp_client.py 247: not entity_id or not service
Malformed(action) ==
    \/ action.entity_id \in {Absent, ""}
    \/ action.service \in {Absent, ""}

\* ha_mcp_client.py 254: entity_id.split('.')[0]
Domain(entity_id) ==
    CASE entity_id = "light.living_room" -> "light"
      [] entity_id = "light.desk" -> "light"
      [] entity_id = "switch.fan" -> "switch"
      [] OTHER -> entity_id

\* ha_mcp_client.py 119-188: every way the request ends gives a result.
call_service(domain, service, entity_id, outcome) ==
    IF outcome = "ok"
    THEN [success |-> TRUE, entity_id |-> entity_id,
          service |-> domain \o "." \o service]
    ELSE [success |-> FALSE, entity_id |-> entity_id,
          service |-> domain \o "." \o service,
          error |-> CASE outcome = "status" -> "Service call failed"
                      [] outcome = "timeout" -> "Service call timed out"
                      [] OTHER -> "HTTP error"]

\* ha_mcp_client.py 230-256 and 335-346; outcome is what the request does if
\* one is made.
\* mutants: a malformed action is sent all the same; a failed request is
\* repeated once
CallsMadeUnchecked(action, outcome) == 1

CallsMadeWithRetry(action, outcome) ==
    IF Malformed(action) THEN 0 ELSE IF outcome = "ok" THEN 1 ELSE 2

CallsMade(action, outcome) == IF Malformed(action) THEN 0 ELSE 1

execute_action(action, outcome) ==
    IF Malformed(action)
    THEN [success |-> FALSE, error |-> "Missing entity_id or service in action"]
    ELSE call_service(Domain(action.entity_id), action.service,
                      action.entity_id, outcome)

\* gesture_handler.py 167-170
\* mutant: a failure without entity_id is not counted as failed
StatForLenient(res) ==
    IF res.success THEN "actions_succeeded"
    ELSE IF "entity_id" \in DOMAIN res THEN "actions_failed"
         ELSE "actions_triggered"

StatFor(res) == IF res.success THEN "actions_succeeded" ELSE "actions_failed"

\* A gate the running call passed: what the gate compared, against what.
Stage(gate, value, limit) == [gate |-> gate, value |-> value, limit |-> limit]

\* A handler after construction, as far as process_gesture works on it;
\* returned lists what its calls returned.
RunStart ==
    [gesture_start_times |-> << >>, last_triggers |-> << >>,
     total_gestures |-> 0, debounced_gestures |-> 0, triggered_gestures |-> 0,
     stats |-> [gestures_received |-> 0, gestures_below_threshold |-> 0,
                gestures_debounced |-> 0, actions_triggered |-> 0,
                actions_succeeded |-> 0, actions_failed |-> 0],
     returned |-> << >>]

\* -------------------------------------------------------------------- init
InitWith(config) ==
    /\ now = 0
    /\ loaded = TRUE
    /\ installed = {config}
    /\ last_good = config
    /\ callback_errors = [gesture |-> 0, action |-> 0]
    /\ gesture_notified = 0
    /\ action_seen = [w \in Workers |-> None]
    /\ executed = [w \in Workers |-> None]
    /\ service_calls = 0
    /\ gesture_settings = Settings(config)
    /\ gesture_mappings = config.gesture_mappings
    /\ confidence_threshold = config.confidence_threshold
    /\ cooldown_seconds = config.cooldown_seconds
    /\ min_hold_time = config.min_hold_time
    /\ last_triggers = << >>
    /\ gesture_start_times = << >>
    /\ total_gestures = 0
    /\ debounced_gestures = 0
    /\ triggered_gestures = 0
    /\ stats = [gestures_received |-> 0, gestures_below_threshold |-> 0,
                gestures_debounced |-> 0, actions_triggered |-> 0,
                actions_succeeded |-> 0, actions_failed |-> 0]
    /\ pc = [w \in Workers |-> "idle"]
    /\ gesture_data = [w \in Workers |-> None]
    /\ current_time = [w \in Workers |-> 0]
    /\ hold_ret = [w \in Workers |-> None]
    /\ mapping = [w \in Workers |-> None]
    /\ result = [w \in Workers |-> None]
    /\ rpc = "idle"
    /\ reloads = 0
    /\ stages = [w \in Workers |-> << >>]
    /\ trigger_log = << >>
    /\ seen = [w \in Workers |-> None]
    /\ events_in = 0
    /\ scenario = [on |-> config = ScenarioConfig, outcomes |-> << >>]
    /\ stat_read = [w \in Workers |-> NotRead]
    /\ last_call = None
    /\ twin = [a |-> RunStart, b |-> RunStart, differ |-> FALSE]

\* The socket layer while it serves: the listener accepts, every connection
\* is open and its handler is between two lines.
Serving ==
    /\ socket_running = TRUE
    /\ acceptor = "accept"
    /\ main = "running"
    /\ client_closed = FALSE
    /\ rd = [w \in Workers |-> "lines"]
    /\ wire = [w \in Workers |-> << >>]
    /\ buffer = [w \in Workers |-> << >>]
    /\ sent = [w \in Workers |-> << >>]
    /\ delivered = [w \in Workers |-> << >>]
    /\ ending = [w \in Workers |-> ""]

\* main.py 82-83 registers both callbacks before any event arrives.
Init ==
    /\ callbacks = "return"
    /\ Serving
    /\ \E config \in ConfigFiles : InitWith(config)

ScenarioInit == callbacks = "return" /\ Serving /\ InitWith(ScenarioConfig)

ObserverInit ==
    /\ callbacks = "may_raise"
    /\ Serving
    /\ \E config \in ConfigFiles : InitWith(config)

\* ------------------------------------------------- the end-to-end scenario
ScenarioEvent == Event("Open_Palm", "Right", 9)

ScenarioTimes == << 0, 3, 6, 10, 27 >>

ScenarioInputs == {ScenarioEvent, Event("Open_Palm", "Right", 7)}

\* The scenario stays "on" while the events processed so far are exactly the
\* scripted ones, each handled entirely at its scripted time; outcome is ""
\* for a step that leaves the event in the pipeline.
Observe(event, outcome) ==
    LET n == Len(scenario.outcomes) IN
    IF ~scenario.on \/ n = Len(ScenarioTimes) THEN scenario
    ELSE IF event = ScenarioEvent /\ now = ScenarioTimes[n + 1]
         THEN IF outcome = "" THEN scenario
              ELSE [scenario EXCEPT !.outcomes = Append(@, outcome)]
         ELSE [scenario EXCEPT !.on = FALSE]

\* ------------------------------------------------------------------- clock
TickTo(limit) ==
    /\ now < limit
    /\ now' = now + 1
    /\ UNCHANGED << gesture_settings, gesture_mappings, confidence_threshold,
                    cooldown_seconds, min_hold_time, last_triggers,
                    gesture_start_times, total_gestures, debounced_gestures,
                    triggered_gestures, stats, pc, gesture_data, current_time,
                    hold_ret, mapping, result, rpc, reloads, stages,
                    trigger_log, seen, events_in, scenario, loaded, installed,
                    last_good, observerVars, dispatchVars, stat_read,
                    outsideVars, serverVars >>

Tick == TickTo(MaxTime)

ScenarioTick == TickTo(ScenarioEnd)

SeqTick == TickTo(MaxSeqTime)

\* --------------------------------------------- GestureHandler.process_gesture
\* A worker's locals (gesture_data, current_time, mapping) and the history of
\* its call (stages, seen) hold a value only while the call runs.
Goto(w, label) ==
    /\ pc' = [pc EXCEPT ![w] = label]
    /\ UNCHANGED << result, dispatchVars >>

\* Returning from process_gesture with a value, before any dispatch.
Return(w, value) ==
    /\ pc' = [pc EXCEPT ![w] = "idle"]
    /\ result' = [result EXCEPT ![w] = value]
    /\ gesture_data' = [gesture_data EXCEPT ![w] = None]
    /\ stages' = [stages EXCEPT ![w] = << >>]
    /\ action_seen' = [action_seen EXCEPT ![w] = None]
    /\ executed' = [executed EXCEPT ![w] = None]
    /\ UNCHANGED service_calls

Pass(w, event, stage) ==
    /\ gesture_data' = [gesture_data EXCEPT ![w] = event]
    /\ stages' = [stages EXCEPT ![w] = Append(@, stage)]

\* gesture_handler.py 118-123
Broadcast(event, outcome) ==
    IF GestureCallbackDue(event.confidence)
    THEN /\ gesture_notified' = gesture_notified + 1
         /\ callback_errors' = Logged("gesture", outcome)
    ELSE UNCHANGED << gesture_notified, callback_errors >>

\* gesture_handler.py 110: "self.stats['gestures_received'] += 1" reads the
\* counter and later writes the value it read plus one.  stat_read holds the
\* value between the two; NotRead, when the worker reads and writes in the
\* same step.
CountReceived(w) ==
    [stats EXCEPT !.gestures_received =
        (IF stat_read[w] = NotRead THEN @ ELSE stat_read[w]) + 1]

\* The read half of line 110, for a worker that is preempted inside the
\* statement.
ReadReceived(w) ==
    /\ pc[w] = "idle"
    /\ stat_read[w] = NotRead
    /\ stat_read' = [stat_read EXCEPT ![w] = stats.gestures_received]
    /\ UNCHANGED << now, gesture_settings, gesture_mappings,
                    confidence_threshold, cooldown_seconds, min_hold_time,
                    last_triggers, gesture_start_times, total_gestures,
                    debounced_gestures, triggered_gestures, stats, pc,
                    gesture_data, current_time, hold_ret, mapping, result, rpc,
                    reloads, stages, trigger_log, seen, events_in, scenario,
                    loaded, callbacks, installed, last_good, callback_errors,
                    gesture_notified, action_seen, executed, service_calls,
                    outsideVars, serverVars >>

\* mutant: an event that passed the confidence check goes straight to the
\* debounce gate, the hold-time gate is not consulted
ReceiveSkipsHold(w, event) ==
    /\ pc[w] = "idle"
    /\ events_in' = events_in + 1
    /\ \E outcome \in CallbackOutcomes :
          /\ Broadcast(event, outcome)
          /\ IF Propagates(outcome)
             THEN /\ stats' = CountReceived(w)
                  /\ scenario' = Observe(event, "raised")
                  /\ Return(w, Raised)
             ELSE IF BelowThreshold(event.confidence)
             THEN /\ stats' = Inc(CountReceived(w),
                                  "gestures_below_threshold")
                  /\ scenario' = Observe(event, "below_threshold")
                  /\ Return(w, None)
             ELSE /\ stats' = CountReceived(w)
                  /\ scenario' = Observe(event, "")
                  /\ Pass(w, event,
                          Stage("confidence", event.confidence,
                                confidence_threshold))
                  /\ Goto(w, "debounce")
    /\ stat_read' = [stat_read EXCEPT ![w] = NotRead]
    /\ UNCHANGED << now, debouncerVars, holdVars, configVars, current_time,
                    mapping, callbacks, outsideVars >>

\* gesture_handler.py 110-131: count the event, call the gesture callback,
\* check the confidence.
Receive(w, event) ==
    /\ pc[w] = "idle"
    /\ events_in' = events_in + 1
    /\ \E outcome \in CallbackOutcomes :
          /\ Broadcast(event, outcome)
          /\ IF Propagates(outcome)
             THEN /\ stats' = CountReceived(w)
                  /\ scenario' = Observe(event, "raised")
                  /\ Return(w, Raised)
             ELSE IF BelowThreshold(event.confidence)
             THEN /\ stats' = Inc(CountReceived(w),
                                  "gestures_below_threshold")
                  /\ scenario' = Observe(event, "below_threshold")
                  /\ Return(w, None)
             ELSE /\ stats' = CountReceived(w)
                  /\ scenario' = Observe(event, "")
                  /\ Pass(w, event,
                          Stage("confidence", event.confidence,
                                confidence_threshold))
                  /\ Goto(w, "hold")
    /\ stat_read' = [stat_read EXCEPT ![w] = NotRead]
    /\ UNCHANGED << now, debouncerVars, holdVars, configVars, current_time,
                    mapping, callbacks, outsideVars >>

\* mutant: an event that the hold-time gate rejects is counted as debounced
NotHeldCounted(w) ==
    /\ stats' = Inc(stats, "gestures_debounced")
    /\ scenario' = Observe(gesture_data[w], "not_held")
    /\ Return(w, None)

\* gesture_handler.py 138-143: not held long enough; no counter, return None.
NotHeld(w) ==
    /\ UNCHANGED stats
    /\ scenario' = Observe(gesture_data[w], "not_held")
    /\ Return(w, None)

\* debouncer.py 222-226 and 231-237, gesture_handler.py 134-143:
\* update_gesture reads the clock and looks the key up; for a known key it
\* returns (is_valid, hold_duration) and the handler branches on is_valid.
HoldCheck(w) ==
    LET key == KeyOf(gesture_data[w]) IN
    /\ pc[w] = "hold"
    /\ IF key \notin DOMAIN gesture_start_times
       THEN /\ current_time' = [current_time EXCEPT ![w] = now]
            /\ scenario' = Observe(gesture_data[w], "")
            /\ Goto(w, "hold_write")
            /\ UNCHANGED << hold_ret, stages, gesture_data, gesture_start_times,
                            stats >>
       ELSE LET hold_duration == now - gesture_start_times[key]
                is_valid == HoldValid(hold_duration) IN
            /\ hold_ret' = [hold_ret EXCEPT ![w] =
                               [is_valid |-> is_valid,
                                hold_duration |-> hold_duration]]
            /\ gesture_start_times' = StartTimesAfterUpdate(key, is_valid)
            /\ IF is_valid
               THEN /\ scenario' = Observe(gesture_data[w], "")
                    /\ Pass(w, gesture_data[w],
                            Stage("hold", hold_duration, min_hold_time))
                    /\ Goto(w, "debounce")
                    /\ UNCHANGED stats
               ELSE NotHeld(w)
            /\ UNCHANGED current_time
    /\ UNCHANGED << now, debouncerVars, configVars, mapping, events_in,
                    observerVars >>
    /\ UNCHANGED << stat_read, outsideVars, serverVars >>

\* debouncer.py 226-229, gesture_handler.py 138-143: a key without hold state
\* gets the call's current_time as start time; the call returns (False, 0.0).
HoldWrite(w) ==
    LET key == KeyOf(gesture_data[w]) IN
    /\ pc[w] = "hold_write"
    /\ gesture_start_times' = Put(gesture_start_times, key, current_time[w])
    /\ current_time' = [current_time EXCEPT ![w] = 0]
    /\ hold_ret' = [hold_ret EXCEPT ![w] = NewGestureResult]
    /\ IF NewGestureResult.is_valid
       THEN /\ scenario' = Observe(gesture_data[w], "")
            /\ Pass(w, gesture_data[w],
                    Stage("hold", NewGestureResult.hold_duration, min_hold_time))
            /\ Goto(w, "debounce")
            /\ UNCHANGED stats
       ELSE NotHeld(w)
    /\ UNCHANGED << now, debouncerVars, configVars, mapping, events_in,
                    observerVars >>
    /\ UNCHANGED << stat_read, outsideVars, serverVars >>

\* debouncer.py 48-69, gesture_handler.py 146-148: should_trigger counts the
\* call, reads the clock and checks the cooldown of the key.
DebounceCheck(w) ==
    LET key == KeyOf(gesture_data[w]) IN
    /\ pc[w] = "debounce"
    /\ total_gestures' = total_gestures + 1
    /\ IF key \in DOMAIN last_triggers /\ InCooldown(now - last_triggers[key])
       THEN /\ debounced_gestures' = debounced_gestures + 1
            /\ stats' = Inc(stats, "gestures_debounced")
            /\ scenario' = Observe(gesture_data[w], "debounced")
            /\ Return(w, None)
            /\ last_triggers' = LastTriggersAfterDebounce(key)
            /\ UNCHANGED << current_time, seen >>
       ELSE /\ current_time' = [current_time EXCEPT ![w] = now]
            /\ seen' = [seen EXCEPT ![w] =
                           [gate |-> "debounce",
                            fresh |-> key \notin DOMAIN last_triggers,
                            value |-> IF key \in DOMAIN last_triggers
                                      THEN now - last_triggers[key] ELSE 0,
                            limit |-> cooldown_seconds]]
            /\ scenario' = Observe(gesture_data[w], "")
            /\ Goto(w, "debounce_write")
            /\ UNCHANGED << debounced_gestures, stats, stages, gesture_data,
                            last_triggers >>
    /\ UNCHANGED << now, triggered_gestures, trigger_log,
                    holdVars, configVars, mapping, events_in, observerVars >>
    /\ UNCHANGED << stat_read, outsideVars, serverVars >>

\* The read half of debouncer.py 73, "self.triggered_gestures += 1", for a
\* worker that is preempted inside the statement.
ReadTriggeredGestures(w) ==
    /\ pc[w] = "debounce_write"
    /\ stat_read[w] = NotRead
    /\ stat_read' = [stat_read EXCEPT ![w] = triggered_gestures]
    /\ UNCHANGED << now, gesture_settings, gesture_mappings,
                    confidence_threshold, cooldown_seconds, min_hold_time,
                    last_triggers, gesture_start_times, total_gestures,
                    debounced_gestures, triggered_gestures, stats, pc,
                    gesture_data, current_time, hold_ret, mapping, result, rpc,
                    reloads, stages, trigger_log, seen, events_in, scenario,
                    loaded, callbacks, installed, last_good, callback_errors,
                    gesture_notified, action_seen, executed, service_calls,
                    outsideVars, serverVars >>

\* debouncer.py 71-76: record the trigger, count it (the counter becomes the
\* value the "+= 1" read, plus one) and return True.
DebounceWrite(w) ==
    LET key == KeyOf(gesture_data[w]) IN
    /\ pc[w] = "debounce_write"
    /\ last_triggers' = Put(last_triggers, key, current_time[w])
    /\ current_time' = [current_time EXCEPT ![w] = 0]
    /\ triggered_gestures' =
          (IF stat_read[w] = NotRead THEN triggered_gestures
           ELSE stat_read[w]) + 1
    /\ trigger_log' = Append(trigger_log,
                             [key |-> key, worker |-> w, at |-> current_time[w],
                              cooldown |-> seen[w].limit])
    /\ seen' = [seen EXCEPT ![w] = None]
    /\ Pass(w, gesture_data[w], seen[w])
    /\ scenario' = Observe(gesture_data[w], "")
    /\ Goto(w, "resolve")
    /\ UNCHANGED << now, total_gestures, debounced_gestures, holdVars,
                    configVars, stats, mapping, events_in, observerVars >>
    /\ stat_read' = [stat_read EXCEPT ![w] = NotRead]
    /\ UNCHANGED << outsideVars, serverVars >>

\* gesture_handler.py 161: "self.stats['actions_triggered'] += 1" writes the
\* value it read plus one; stat_read holds the value read by a worker that
\* is preempted inside the statement.
CountTriggered(w) ==
    [stats EXCEPT !.actions_triggered =
        (IF stat_read[w] = NotRead THEN @ ELSE stat_read[w]) + 1]

\* The read half of line 161, for a worker that is preempted inside the
\* statement.
ReadTriggered(w) ==
    /\ pc[w] = "resolve"
    /\ stat_read[w] = NotRead
    /\ get_mapping_for_gesture(gesture_data[w].gesture, gesture_data[w].hand)
          \notin {None, Raised}
    /\ stat_read' = [stat_read EXCEPT ![w] = stats.actions_triggered]
    /\ UNCHANGED << now, gesture_settings, gesture_mappings,
                    confidence_threshold, cooldown_seconds, min_hold_time,
                    last_triggers, gesture_start_times, total_gestures,
                    debounced_gestures, triggered_gestures, stats, pc,
                    gesture_data, current_time, hold_ret, mapping, result, rpc,
                    reloads, stages, trigger_log, seen, events_in, scenario,
                    loaded, callbacks, installed, last_good, callback_errors,
                    gesture_notified, action_seen, executed, service_calls,
                    outsideVars, serverVars >>

\* gesture_handler.py 150-161: look the mapping up; count the trigger.
Resolve(w) ==
    LET found == get_mapping_for_gesture(gesture_data[w].gesture,
                                         gesture_data[w].hand) IN
    /\ pc[w] = "resolve"
    /\ IF found = Raised
       THEN /\ scenario' = Observe(gesture_data[w], "raised")
            /\ Return(w, Raised)
            /\ UNCHANGED << stats, mapping >>
       ELSE IF found = None
       THEN /\ scenario' = Observe(gesture_data[w], "unmapped")
            /\ Return(w, None)
            /\ UNCHANGED << stats, mapping >>
       ELSE /\ mapping' = [mapping EXCEPT ![w] = found]
            /\ stats' = CountTriggered(w)
            /\ scenario' = Observe(gesture_data[w], "")
            /\ Pass(w, gesture_data[w],
                    Stage("mapping", found.gesture, found.hand))
            /\ Goto(w, "dispatch")
    /\ UNCHANGED << now, debouncerVars, holdVars, configVars, current_time,
                    events_in, observerVars >>
    /\ stat_read' = [stat_read EXCEPT ![w] = NotRead]
    /\ UNCHANGED << outsideVars, serverVars >>

\* gesture_handler.py 163: the action comes from the local mapping.
\* mutant: the action is looked up again in the configuration of the moment
ActionOfCurrentConfig(w) ==
    LET found == get_mapping_for_gesture(gesture_data[w].gesture,
                                         gesture_data[w].hand) IN
    IF found = None THEN mapping[w].action ELSE found.action

ActionOf(w) == mapping[w].action

\* What a request can do at this moment: once close() has closed the HTTP
\* client (ha_mcp_client.py 96-100, 353-357) a request can only fail, and
\* call_service turns the exception into a failure result (180-188).
RequestOutcomes == IF client_closed THEN {"http_error"} ELSE ClientOutcomes

\* gesture_handler.py 163-179: execute the action, count the outcome, call
\* the action callback with the result, return the result.  superseded tells
\* that a reload had replaced the mapping by the time of the execution.
Dispatch(w) ==
    /\ pc[w] = "dispatch"
    /\ \E outcome \in RequestOutcomes, heard \in CallbackOutcomes :
          LET action == ActionOf(w)
              res == execute_action(action, outcome)
              calls == CallsMade(action, outcome)
          IN
          /\ service_calls' = service_calls + calls
          /\ executed' = [executed EXCEPT ![w] =
                [action |-> action, calls |-> calls,
                 outcome |-> IF calls = 0 THEN "none" ELSE outcome,
                 superseded |->
                    /\ rpc = "idle"
                    /\ get_mapping_for_gesture(gesture_data[w].gesture,
                                               gesture_data[w].hand)
                          # mapping[w]]]
          /\ stats' = Inc(stats, StatFor(res))
          /\ action_seen' = [action_seen EXCEPT ![w] = res]
          /\ callback_errors' = Logged("action", heard)
          /\ result' = [result EXCEPT ![w] =
                           IF Propagates(heard) THEN Raised ELSE res]
    /\ pc' = [pc EXCEPT ![w] = "idle"]
    /\ gesture_data' = [gesture_data EXCEPT ![w] = None]
    /\ stages' = [stages EXCEPT ![w] = << >>]
    /\ mapping' = [mapping EXCEPT ![w] = None]
    /\ scenario' = Observe(gesture_data[w], "dispatched")
    /\ UNCHANGED << now, debouncerVars, holdVars, configVars, current_time,
                    events_in, callbacks, gesture_notified >>
    /\ UNCHANGED << stat_read, outsideVars, serverVars >>

\* ------------------------------------------------ GestureHandler.reload_config
\* config_manager.py 75-135
\* The validator without the check of the hand (config_manager.py 119-122).
validate_config_any_hand(config) ==
    /\ config.homeassistant # {}
    /\ Settings(config) # << >>
    /\ \A field \in {"mcp_url", "token_env_var"} : field \in config.homeassistant
    /\ 0 <= config.confidence_threshold /\ config.confidence_threshold <= 10
    /\ \A i \in 1..Len(config.gesture_mappings) :
          LET m == config.gesture_mappings[i] IN
          /\ {"name", "gesture", "hand", "action"} \subseteq DOMAIN m
          /\ m.action.entity_id # Absent
          /\ m.action.service # Absent

\* config_manager.py 75-135: both sections are there, homeassistant has its
\* two fields, the threshold is within [0, 1], and every mapping has its four
\* fields, a known hand and an action with entity_id and service.
validate_config(config) ==
    /\ config.homeassistant # {}
    /\ Settings(config) # << >>
    /\ \A field \in {"mcp_url", "token_env_var"} : field \in config.homeassistant
    /\ 0 <= config.confidence_threshold /\ config.confidence_threshold <= 10
    /\ \A i \in 1..Len(config.gesture_mappings) :
          LET m == config.gesture_mappings[i] IN
          /\ {"name", "gesture", "hand", "action"} \subseteq DOMAIN m
          /\ m.hand \in {"Left", "Right", "Either"}
          /\ m.action.entity_id # Absent
          /\ m.action.service # Absent

\* config_manager.py 44-73, gesture_handler.py 313 and 326-327: load_config
\* returns False for a missing or unparsable file and leaves the sections; for
\* a file that parses it assigns the sections and then validates them.
ReloadFrom(files) ==
    /\ rpc = "idle"
    /\ reloads' = reloads + 1
    /\ \E file \in files :
          IF file.kind # "yaml"
          THEN /\ loaded' = FALSE
               /\ rpc' = "idle"
               /\ UNCHANGED << gesture_settings, gesture_mappings, installed,
                               last_good >>
          ELSE /\ gesture_settings' = Settings(file.config)
               /\ gesture_mappings' = file.config.gesture_mappings
               /\ installed' = installed \cup {file.config}
               /\ loaded' = validate_config(file.config)
               /\ last_good' = IF validate_config(file.config)
                               THEN file.config ELSE last_good
               /\ rpc' = IF validate_config(file.config)
                         THEN "set_cooldown" ELSE "idle"
    /\ scenario' = [scenario EXCEPT !.on = FALSE]
    /\ UNCHANGED << now, confidence_threshold, cooldown_seconds, min_hold_time,
                    debouncerVars, holdVars, stats, pc, gesture_data,
                    current_time, mapping, result, stages, events_in,
                    observerVars, dispatchVars,
                    stat_read, outsideVars, serverVars >>

\* mutant: the new period starts with no trigger recorded
set_cooldown_afresh(seconds) ==
    /\ cooldown_seconds' = seconds
    /\ last_triggers' = << >>
    /\ UNCHANGED << total_gestures, debounced_gestures, triggered_gestures,
                    trigger_log, seen >>

\* debouncer.py 96-105: the period is assigned, nothing else.
set_cooldown(seconds) ==
    /\ cooldown_seconds' = seconds
    /\ UNCHANGED debouncerVars

\* debouncer.py 251-253: the duration is assigned, nothing else.
set_min_hold_time(seconds) ==
    /\ min_hold_time' = seconds
    /\ UNCHANGED holdVars

\* gesture_handler.py 315-316
ReloadSetCooldown ==
    /\ rpc = "set_cooldown"
    /\ set_cooldown(get_cooldown_seconds)
    /\ rpc' = "set_min_hold_time"
    /\ UNCHANGED << now, gesture_settings, gesture_mappings,
                    confidence_threshold, min_hold_time, reloads, loaded,
                    installed, last_good,
                    holdVars, stats, pc, gesture_data,
                    current_time, mapping, result, stages, events_in, scenario,
                    observerVars, dispatchVars,
                    stat_read, outsideVars, serverVars >>

\* gesture_handler.py 319-320
ReloadSetMinHoldTime ==
    /\ rpc = "set_min_hold_time"
    /\ set_min_hold_time(get_min_hold_time)
    /\ rpc' = "set_threshold"
    /\ UNCHANGED << now, gesture_settings, gesture_mappings,
                    confidence_threshold, cooldown_seconds, reloads, loaded,
                    installed, last_good,
                    debouncerVars, stats, pc, gesture_data,
                    current_time, mapping, result, stages, events_in, scenario,
                    observerVars, dispatchVars,
                    stat_read, outsideVars, serverVars >>

\* gesture_handler.py 323
ReloadSetThreshold ==
    /\ rpc = "set_threshold"
    /\ confidence_threshold' = get_confidence_threshold
    /\ rpc' = "idle"
    /\ UNCHANGED << now, gesture_settings, gesture_mappings, cooldown_seconds,
                    min_hold_time, reloads, loaded, installed, last_good,
                    debouncerVars, holdVars, stats,
                    pc, gesture_data, current_time, mapping, result, stages,
                    events_in, scenario, observerVars, dispatchVars,
                    stat_read, outsideVars, serverVars >>

\* reload_config with one of the files of Files at config_path.
ReloadLoad == ReloadFrom(Files)

\* reload_config with any file at config_path.
ReloadAny == ReloadFrom(AnyFiles)

\* ------------------------------------------- process_gesture as a function
\* The event as gesture_stream.py 242-247 sends it, timestamp included.
Stamped(event, timestamp) ==
    [gesture |-> event.gesture, hand |-> event.hand,
     confidence |-> event.confidence, timestamp |-> timestamp]

\* Values of the timestamp field: gesture_stream.py 243 sends milliseconds.
Timestamps == {0, 1000}

\* mutant: the gates take the time from the event
timestamp_of(event) == event.timestamp

\* debouncer.py 54 and 223: time.time()
time(event) == now

Returned(run, value) == [run EXCEPT !.returned = Append(@, value)]

\* debouncer.py 209-237 on the handler run: the new start times and
\* is_valid.
update_gesture(run, event) ==
    LET key == KeyOf(event)
        current == time(event) IN
    IF key \notin DOMAIN run.gesture_start_times
    THEN [start_times |-> Put(run.gesture_start_times, key, current),
          is_valid |-> NewGestureResult.is_valid]
    ELSE [start_times |-> run.gesture_start_times,
          is_valid |-> HoldValid(current - run.gesture_start_times[key])]

\* debouncer.py 37-76 on the handler run: the run after the call and what
\* the call returned.
should_trigger(run, event) ==
    LET key == KeyOf(event)
        current == time(event)
        counted == [run EXCEPT !.total_gestures = @ + 1] IN
    IF /\ key \in DOMAIN run.last_triggers
       /\ InCooldown(current - run.last_triggers[key])
    THEN [run |-> [counted EXCEPT !.debounced_gestures = @ + 1],
          ret |-> FALSE]
    ELSE [run |-> [counted EXCEPT
                      !.last_triggers = Put(@, key, current),
                      !.triggered_gestures = @ + 1],
          ret |-> TRUE]

\* gesture_handler.py 110-179, the statements of one call in their order on
\* the handler run; outcome is what the request to Home Assistant does.
process_gesture(run, event, outcome) ==
    LET received == [run EXCEPT !.stats = Inc(@, "gestures_received")]
        held == update_gesture(received, event)
        kept == [received EXCEPT !.gesture_start_times = held.start_times]
        gate == should_trigger(kept, event)
        found == get_mapping_for_gesture(event.gesture, event.hand)
        res == execute_action(found.action, outcome)
    IN  IF BelowThreshold(event.confidence)
        THEN Returned([received EXCEPT
                          !.stats = Inc(@, "gestures_below_threshold")], None)
        ELSE IF ~held.is_valid THEN Returned(kept, None)
        ELSE IF ~gate.ret
        THEN Returned([gate.run EXCEPT
                          !.stats = Inc(@, "gestures_debounced")], None)
        ELSE IF found = Raised THEN Returned(gate.run, Raised)
        ELSE IF found = None THEN Returned(gate.run, None)
        ELSE Returned([gate.run EXCEPT
                          !.stats = Inc(Inc(@, "actions_triggered"),
                                        StatFor(res))], res)

\* The same event reaches both handlers at the same time, its timestamp
\* field being any value for each of them, and Home Assistant answers both
\* alike.
Twin ==
    /\ Len(twin.a.returned) < MaxEvents
    /\ \E event \in Events, outcome \in ClientOutcomes :
       \E first \in Timestamps, second \in Timestamps :
          twin' = [a |-> process_gesture(twin.a, Stamped(event, first),
                                         outcome),
                   b |-> process_gesture(twin.b, Stamped(event, second),
                                         outcome),
                   differ |-> twin.differ \/ first # second]
    /\ UNCHANGED << now, configVars, debouncerVars, holdVars, stats, pc,
                    gesture_data, current_time, mapping, result, stages,
                    events_in, scenario, observerVars, dispatchVars, stat_read,
                    last_call, serverVars >>

\* ------------------------------------- calls on the gates from other threads
\* mutant: the whole dictionary is cleared, as reset() does
WithoutAny(dict, key) == << >>

\* del dict[key]
Without(dict, key) == [k \in DOMAIN dict \ {key} |-> dict[k]]

\* A call on one of the gates and what it returned.
GateCall(op, key) == [op |-> op, args |-> << key >>, ret |-> None]

\* debouncer.py 247-249.  The test and the del are one step: the caller is
\* one thread and nothing else removes a key, so a key that the test found
\* is there for the del, and a key that update_gesture adds after a failed
\* test is added after the call.
clear_gesture(key) ==
    /\ gesture_start_times' =
          IF key \in DOMAIN gesture_start_times
          THEN Without(gesture_start_times, key)
          ELSE gesture_start_times
    /\ last_call' = GateCall("clear_gesture", key)
    /\ UNCHANGED << now, configVars, debouncerVars, hold_ret, stats, pc,
                    gesture_data, current_time, mapping, result, stages,
                    events_in, scenario, observerVars, dispatchVars, stat_read,
                    twin, serverVars >>

\* debouncer.py 91-94
reset_gesture(key) ==
    /\ last_triggers' =
          IF key \in DOMAIN last_triggers
          THEN Without(last_triggers, key)
          ELSE last_triggers
    /\ last_call' = GateCall("reset_gesture", key)
    /\ UNCHANGED << now, configVars, total_gestures, debounced_gestures,
                    triggered_gestures, trigger_log, seen, holdVars, stats, pc,
                    gesture_data, current_time, mapping, result, stages,
                    events_in, scenario, observerVars, dispatchVars, stat_read,
                    twin, serverVars >>

\* ------------------------------------------------------------ ConfigManager
\* Mappings handed to add_gesture_mapping and update_gesture_mapping: a
\* complete one, one with a hand that validate_config rejects, one without
\* the key 'gesture'.
NewMappings ==
    {Mapping("thumb_any", "Thumb_Up", "Either", Action("light.desk", "toggle")),
     Mapping("palm_both", "Open_Palm", "Both", Action("switch.fan", "toggle")),
     [name |-> "anything", hand |-> "Right",
      action |-> Action("switch.fan", "turn_off")]}

\* A call on the ConfigManager and what it returned.
Call(op, args, ret) == [op |-> op, args |-> args, ret |-> ret]

Edited(call) ==
    /\ last_call' = call
    /\ UNCHANGED << now, gesture_settings, confidence_threshold,
                    cooldown_seconds, min_hold_time, rpc, reloads, loaded,
                    installed, last_good, debouncerVars, holdVars, stats, pc,
                    gesture_data, current_time, mapping, result, stages,
                    events_in, scenario, observerVars, dispatchVars, stat_read,
                    twin, serverVars >>

\* config_manager.py 226-232; index counts from 0
remove_gesture_mapping(index) ==
    IF 0 <= index /\ index < Len(gesture_mappings)
    THEN /\ gesture_mappings' =
               SubSeq(gesture_mappings, 1, index)
                   \o SubSeq(gesture_mappings, index + 2,
                             Len(gesture_mappings))
         /\ Edited(Call("remove_gesture_mapping", << index >>, TRUE))
    ELSE /\ UNCHANGED gesture_mappings
         /\ Edited(Call("remove_gesture_mapping", << index >>, FALSE))

\* config_manager.py 205-214: only the presence of the four keys is checked.
add_gesture_mapping(m) ==
    IF {"name", "gesture", "hand", "action"} \subseteq DOMAIN m
    THEN /\ gesture_mappings' = Append(gesture_mappings, m)
         /\ Edited(Call("add_gesture_mapping", << m >>, TRUE))
    ELSE /\ UNCHANGED gesture_mappings
         /\ Edited(Call("add_gesture_mapping", << m >>, FALSE))

\* config_manager.py 245-251: the mapping is stored as it is given.
update_gesture_mapping(index, m) ==
    IF 0 <= index /\ index < Len(gesture_mappings)
    THEN /\ gesture_mappings' = [gesture_mappings EXCEPT ![index + 1] = m]
         /\ Edited(Call("update_gesture_mapping", << index, m >>, TRUE))
    ELSE /\ UNCHANGED gesture_mappings
         /\ Edited(Call("update_gesture_mapping", << index, m >>, FALSE))

\* A caller of get_mapping_for_gesture, as gesture_handler.py 151-154 is.
Lookup(event) ==
    /\ UNCHANGED gesture_mappings
    /\ Edited(Call("get_mapping_for_gesture", << event.gesture, event.hand >>,
                   get_mapping_for_gesture(event.gesture, event.hand)))

\* The calls that edit the mappings, with indices in and out of range.
Edit ==
    \/ \E m \in NewMappings :
          Len(gesture_mappings) < MaxMappings /\ add_gesture_mapping(m)
    \/ \E index \in -1..Len(gesture_mappings) : remove_gesture_mapping(index)
    \/ \E index \in -1..Len(gesture_mappings), m \in NewMappings :
          update_gesture_mapping(index, m)

Reload ==
    \/ reloads < MaxReloads /\ ReloadLoad
    \/ ReloadSetCooldown
    \/ ReloadSetMinHoldTime
    \/ ReloadSetThreshold

\* ---------------------------------------- GestureHandler._handle_socket_client
\* What a peer sends is a sequence of bytes.  "a" and "b" stand for the text
\* of one event each, "x" for text that is not JSON, " " for white space;
\* "C3" "A9" are the two bytes that encode one non-ASCII character in UTF-8,
\* as a JSON document may carry in a string that process_gesture does not
\* read.  gesture_stream.py 185-186 is one such peer.
NL == "\n"

LeadByte == "C3"

ContinuationByte == "A9"

NonAscii == "U+00E9"

EventA == Event("Open_Palm", "Right", 9)

EventB == Event("Thumb_Up", "Left", 9)

Streams ==
    { << "b", NL, "x", NL, "b", NL >>,
      << "b", LeadByte, ContinuationByte, NL, "b", NL >>,
      << "b", NL, " ", NL, "b" >> }

\* What each peer of the full server sends.
ServerStream == << "b", NL, "a", NL >>

Drop(seq, n) == SubSeq(seq, n + 1, Len(seq))

\* bytes.decode('utf-8') of line 255 raises UnicodeDecodeError unless every
\* lead byte has its continuation byte in the same data.
RECURSIVE Decodable(_)
Decodable(data) ==
    IF data = << >> THEN TRUE
    ELSE IF Head(data) = LeadByte
         THEN /\ Len(data) >= 2
              /\ data[2] = ContinuationByte
              /\ Decodable(Drop(data, 2))
         ELSE Head(data) # ContinuationByte /\ Decodable(Tail(data))

RECURSIVE decode(_)
decode(data) ==
    IF data = << >> THEN << >>
    ELSE IF Head(data) = LeadByte /\ Len(data) >= 2
         THEN << NonAscii >> \o decode(Drop(data, 2))
         ELSE << Head(data) >> \o decode(Tail(data))

Has(text, char) == \E i \in 1..Len(text) : text[i] = char

\* mutant: the buffer is split at its last newline
LastNewline(text) ==
    CHOOSE i \in 1..Len(text) :
        text[i] = NL /\ \A j \in (i + 1)..Len(text) : text[j] # NL

\* line 259, buffer.split('\n', 1): the place of the first newline.
Newline(text) ==
    CHOOSE i \in 1..Len(text) :
        text[i] = NL /\ \A j \in 1..(i - 1) : text[j] # NL

\* str.strip of line 261
RECURSIVE strip(_)
strip(text) ==
    IF text = << >> THEN << >>
    ELSE IF Head(text) = " " THEN strip(Tail(text))
    ELSE IF text[Len(text)] = " " THEN strip(SubSeq(text, 1, Len(text) - 1))
    ELSE text

\* json.loads of line 264 takes one document with white space around it and
\* raises JSONDecodeError for any other text.
IsJSON(line) ==
    LET text == strip(line) IN
    /\ text # << >>
    /\ Head(text) \in {"a", "b"}
    /\ \A i \in 2..Len(text) : text[i] = NonAscii

loads(line) == IF Head(strip(line)) = "a" THEN EventA ELSE EventB

\* The line was logged as invalid JSON (lines 269-270).
Invalid == [invalid |-> TRUE]

\* The handler leaves its loop; finally closes the connection (278-280) and
\* the local buffer is gone with the thread.
Close(w, why) ==
    /\ rd' = [rd EXCEPT ![w] = "closed"]
    /\ buffer' = [buffer EXCEPT ![w] = << >>]
    /\ ending' = [ending EXCEPT ![w] = why]

\* line 247: while self.socket_running
LoopCheck(w) ==
    /\ rd[w] = "loop"
    /\ IF socket_running
       THEN /\ rd' = [rd EXCEPT ![w] = "recv"]
            /\ UNCHANGED << buffer, ending >>
       ELSE Close(w, "shutdown")
    /\ UNCHANGED << wire, sent, delivered, socket_running, acceptor, main,
                    client_closed, handlerVars >>

\* mutant: when the peer has closed, the text left in the buffer is taken as
\* a last line
RecvEndingLine(w) ==
    /\ rd[w] = "recv"
    /\ \/ \E n \in 1..Len(wire[w]) :
             LET data == SubSeq(wire[w], 1, n) IN
             /\ wire' = [wire EXCEPT ![w] = Drop(@, n)]
             /\ IF Decodable(data)
                THEN /\ buffer' = [buffer EXCEPT ![w] = @ \o decode(data)]
                     /\ rd' = [rd EXCEPT ![w] = "lines"]
                     /\ UNCHANGED ending
                ELSE Close(w, "UnicodeDecodeError")
       \/ /\ wire[w] = << >>
          /\ IF buffer[w] = << >>
             THEN Close(w, "eof")
             ELSE /\ buffer' = [buffer EXCEPT ![w] = @ \o << NL >>]
                  /\ rd' = [rd EXCEPT ![w] = "lines"]
                  /\ UNCHANGED ending
          /\ UNCHANGED wire
       \/ Close(w, "OSError") /\ UNCHANGED wire
    /\ UNCHANGED << sent, delivered, socket_running, acceptor, main,
                    client_closed, handlerVars >>

\* lines 249-255 and 275-280: conn.recv(1024) gives the next bytes of the
\* stream, any number of them; nothing when the peer has closed (break); or it
\* raises.  Data that does not decode raises too, and the outer except ends
\* the handler.
Recv(w) ==
    /\ rd[w] = "recv"
    /\ \/ \E n \in 1..Len(wire[w]) :
             LET data == SubSeq(wire[w], 1, n) IN
             /\ wire' = [wire EXCEPT ![w] = Drop(@, n)]
             /\ IF Decodable(data)
                THEN /\ buffer' = [buffer EXCEPT ![w] = @ \o decode(data)]
                     /\ rd' = [rd EXCEPT ![w] = "lines"]
                     /\ UNCHANGED ending
                ELSE Close(w, "UnicodeDecodeError")
       \/ /\ wire[w] = << >>
          /\ Close(w, "eof")
          /\ UNCHANGED wire
       \/ Close(w, "OSError") /\ UNCHANGED wire
    /\ UNCHANGED << sent, delivered, socket_running, acceptor, main,
                    client_closed, handlerVars >>

\* mutant: a line that is not JSON ends the handler, as if JSONDecodeError
\* were caught by the outer except
LinesEndingAtBadJSON(w) ==
    /\ rd[w] = "lines"
    /\ pc[w] = "idle"
    /\ IF Has(buffer[w], NL)
       THEN LET i == Newline(buffer[w])
                line == SubSeq(buffer[w], 1, i - 1)
            IN
            IF strip(line) = << >>
            THEN /\ buffer' = [buffer EXCEPT ![w] = Drop(@, i)]
                 /\ UNCHANGED << rd, ending, delivered, handlerVars >>
            ELSE IF ~IsJSON(line)
            THEN /\ delivered' = [delivered EXCEPT ![w] = Append(@, Invalid)]
                 /\ Close(w, "JSONDecodeError")
                 /\ UNCHANGED handlerVars
            ELSE /\ buffer' = [buffer EXCEPT ![w] = Drop(@, i)]
                 /\ delivered' =
                       [delivered EXCEPT ![w] = Append(@, loads(line))]
                 /\ Receive(w, loads(line))
                 /\ UNCHANGED << rd, ending >>
       ELSE /\ rd' = [rd EXCEPT ![w] = "loop"]
            /\ UNCHANGED << buffer, ending, delivered, handlerVars >>
    /\ UNCHANGED << wire, sent, socket_running, acceptor, main,
                    client_closed >>

\* lines 258-273: while the buffer has a newline, take the text before the
\* first one; skip it if blank, log it if it is not JSON, else hand the event
\* to process_gesture, which returns before the next line is taken.
Lines(w) ==
    /\ rd[w] = "lines"
    /\ pc[w] = "idle"
    /\ IF Has(buffer[w], NL)
       THEN LET i == Newline(buffer[w])
                line == SubSeq(buffer[w], 1, i - 1)
            IN
            /\ buffer' = [buffer EXCEPT ![w] = Drop(@, i)]
            /\ UNCHANGED << rd, ending >>
            /\ IF strip(line) = << >>
               THEN UNCHANGED << delivered, handlerVars >>
               ELSE IF ~IsJSON(line)
               THEN /\ delivered' =
                          [delivered EXCEPT ![w] = Append(@, Invalid)]
                    /\ UNCHANGED handlerVars
               ELSE /\ delivered' =
                          [delivered EXCEPT ![w] = Append(@, loads(line))]
                    /\ Receive(w, loads(line))
       ELSE /\ rd' = [rd EXCEPT ![w] = "loop"]
            /\ UNCHANGED << buffer, ending, delivered, handlerVars >>
    /\ UNCHANGED << wire, sent, socket_running, acceptor, main,
                    client_closed >>

\* One step of the handler thread of a connection.
Reader(w) == LoopCheck(w) \/ Recv(w) \/ Lines(w)

\* ------------------------------------------- the socket server and shutdown
\* mutant: the acceptor runs the handler itself instead of starting a thread
HandlerThreadInline(conn) == "acceptor"

\* gesture_handler.py 220-225: every accepted connection gets a thread of its
\* own, here named after the connection.
HandlerThread(conn) == conn

\* The thread is inside a handler that has not ended.
Busy(thread) ==
    \E w \in Workers :
        rd[w] \in {"loop", "recv", "lines"} /\ HandlerThread(w) = thread

\* main.py 141-147 and gesture_handler.py 189-199: start_socket_server sets
\* the flag, starts the server thread and returns; start then sets running.
StartServer ==
    /\ main = "init"
    /\ socket_running' = TRUE
    /\ acceptor' = "bind"
    /\ main' = "running"
    /\ UNCHANGED << client_closed, connVars, handlerVars >>

\* gesture_handler.py 203-211 and 234-240: the server thread creates, binds
\* and listens; an exception there is logged and the thread ends.
Bind ==
    /\ acceptor = "bind"
    /\ \E bound \in BOOLEAN : acceptor' = IF bound THEN "loop" ELSE "failed"
    /\ UNCHANGED << socket_running, main, client_closed, connVars,
                    handlerVars >>

\* line 213, while self.socket_running, and 237-240 when the loop is left.
AcceptorCheck ==
    /\ acceptor = "loop"
    /\ ~Busy("acceptor")
    /\ acceptor' = IF socket_running THEN "accept" ELSE "closed"
    /\ UNCHANGED << socket_running, main, client_closed, connVars,
                    handlerVars >>

\* lines 216-225: accept returns a connection and its handler is started.
AcceptConnection(w) ==
    /\ acceptor = "accept"
    /\ ~Busy("acceptor")
    /\ rd[w] = "off"
    /\ rd' = [rd EXCEPT ![w] = "loop"]
    /\ acceptor' = "loop"
    /\ UNCHANGED << socket_running, main, client_closed, wire, buffer, sent,
                    delivered, ending, handlerVars >>

\* lines 209 and 227-228: accept times out after one second.
AcceptTimeout ==
    /\ acceptor = "accept"
    /\ ~Busy("acceptor")
    /\ acceptor' = "loop"
    /\ UNCHANGED << socket_running, main, client_closed, connVars,
                    handlerVars >>

Acceptor ==
    \/ AcceptorCheck
    \/ AcceptTimeout
    \/ \E w \in Workers : AcceptConnection(w)

\* main.py 175-187, gesture_handler.py 353-357 and 284-285: a signal makes
\* stop call cleanup, which calls stop_socket_server.
Stop ==
    /\ main = "running"
    /\ socket_running' = FALSE
    /\ main' = "join"
    /\ UNCHANGED << acceptor, client_closed, connVars, handlerVars >>

\* gesture_handler.py 287-288: join waits for the server thread, which ends
\* within the accept timeout of one second; the join timeout is five.
Join ==
    /\ main = "join"
    /\ acceptor \in {"failed", "closed"}
    /\ main' = "close"
    /\ UNCHANGED << socket_running, acceptor, client_closed, connVars,
                    handlerVars >>

\* gesture_handler.py 358 and ha_mcp_client.py 353-357: close runs
\* client.close() on self.loop, the loop of the latest call.  While a worker
\* is in execute_action that loop can be the worker's running loop, and
\* run_until_complete raises; or the loop of a call that has returned, and the
\* HTTP client is closed.
CloseClient ==
    /\ main = "close"
    /\ \/ /\ client_closed' = TRUE
          /\ main' = "stopped"
       \/ /\ \E w \in Workers : pc[w] = "dispatch"
          /\ main' = "raised"
          /\ UNCHANGED client_closed
    /\ UNCHANGED << socket_running, acceptor, connVars, handlerVars >>

\* ---------------------------------------------------------- specifications
\* One worker's next step of process_gesture.
Step(w) ==
    \/ HoldCheck(w)
    \/ HoldWrite(w)
    \/ DebounceCheck(w)
    \/ DebounceWrite(w)
    \/ Resolve(w)
    \/ Dispatch(w)

\* An event that some open connection hands to process_gesture; these
\* specifications leave out how the line got there.
Handle(w, event) == Receive(w, event) /\ UNCHANGED serverVars

\* The program: one worker thread per connection, all running concurrently.
Next ==
    \/ \E w \in Workers, event \in Events :
          events_in < MaxEvents /\ Handle(w, event)
    \/ \E w \in Workers : Step(w)
    \/ Tick

Spec == Init /\ [][Next]_vars

\* A single connection, so that the calls of the gates form a sequence, and
\* a caller of reload_config.
SeqNext ==
    \/ \E event \in Events :
          events_in < MaxEvents /\ Handle(FirstWorker, event)
    \/ Step(FirstWorker)
    \/ Reload
    \/ SeqTick

SeqSpec == Init /\ [][SeqNext]_vars

\* A single connection and a thread that calls clear_gesture and
\* reset_gesture, with any key, at any moment.
GateNext ==
    \/ \E event \in Events :
          events_in < MaxEvents /\ Handle(FirstWorker, event)
    \/ Step(FirstWorker)
    \/ \E key \in Keys : clear_gesture(key)
    \/ \E key \in Keys : reset_gesture(key)
    \/ SeqTick

GateSpec == Init /\ [][GateNext]_vars

\* Two handlers fed alike but for the timestamp fields.
TwinNext == Twin \/ SeqTick

TwinSpec == Init /\ [][TwinNext]_vars

\* The ConfigManager under reloads with any file at config_path, and lookups.
ManagerNext ==
    \/ reloads < MaxReloads /\ ReloadAny
    \/ ReloadSetCooldown
    \/ ReloadSetMinHoldTime
    \/ ReloadSetThreshold
    \/ \E event \in Events : Lookup(event)

ManagerSpec == Init /\ [][ManagerNext]_vars

\* The ConfigManager under the calls that edit the mappings, and lookups.
EditNext ==
    \/ Edit
    \/ \E event \in Events : Lookup(event)

EditSpec == Init /\ [][EditNext]_vars

\* A single connection under the configuration of the end-to-end scenario;
\* events arrive and the clock advances for as long as the script is followed.
ScenarioNext ==
    \/ \E event \in ScenarioInputs :
          /\ scenario.on
          /\ events_in < Len(ScenarioTimes)
          /\ Handle(FirstWorker, event)
    \/ Step(FirstWorker)
    \/ scenario.on /\ ScenarioTick

ScenarioSpec == ScenarioInit /\ [][ScenarioNext]_vars

\* A single connection whose callbacks can raise.
ObserverNext ==
    \/ \E event \in Events :
          events_in < MaxEvents /\ Handle(FirstWorker, event)
    \/ Step(FirstWorker)
    \/ Tick

ObserverSpec == ObserverInit /\ [][ObserverNext]_vars

\* One connection and its handler: the peer sends some stream of bytes, in
\* any chunks, and may close or break the connection.
FramingInit ==
    /\ callbacks = "return"
    /\ \E config \in ConfigFiles : InitWith(config)
    /\ socket_running = TRUE
    /\ acceptor = "accept"
    /\ main = "running"
    /\ client_closed = FALSE
    /\ rd = [w \in Workers |-> IF w = FirstWorker THEN "loop" ELSE "off"]
    /\ \E stream \in Streams :
          /\ wire = [w \in Workers |->
                        IF w = FirstWorker THEN stream ELSE << >>]
          /\ sent = wire
    /\ buffer = [w \in Workers |-> << >>]
    /\ delivered = [w \in Workers |-> << >>]
    /\ ending = [w \in Workers |-> ""]

FramingNext == Reader(FirstWorker) \/ Step(FirstWorker)

FramingSpec == FramingInit /\ [][FramingNext]_vars

\* The whole server from start to shutdown, with two peers.
ServerInit ==
    /\ callbacks = "return"
    /\ InitWith(ConfigB)
    /\ socket_running = FALSE
    /\ acceptor = "unstarted"
    /\ main = "init"
    /\ client_closed = FALSE
    /\ rd = [w \in Workers |-> "off"]
    /\ wire = [w \in Workers |-> ServerStream]
    /\ sent = wire
    /\ buffer = [w \in Workers |-> << >>]
    /\ delivered = [w \in Workers |-> << >>]
    /\ ending = [w \in Workers |-> ""]

ServerNext ==
    \/ StartServer
    \/ Bind
    \/ Acceptor
    \/ Stop
    \/ Join
    \/ CloseClient
    \/ \E w \in Workers : Reader(w)
    \/ \E w \in Workers : Step(w)

ServerSpec == ServerInit /\ [][ServerNext]_vars

\* The same server with the scheduling the threads get: every thread that can
\* take a step of its own eventually does, and accept returns at the latest
\* when its timeout of one second expires (line 209).  Nothing makes a signal
\* arrive or a peer send, close or fail.
ShutdownSpec ==
    /\ ServerInit
    /\ [][ServerNext]_vars
    /\ WF_vars(StartServer)
    /\ WF_vars(Bind)
    /\ WF_vars(Acceptor)
    /\ WF_vars(Join)
    /\ WF_vars(CloseClient)
    /\ \A w \in Workers :
          WF_vars(LoopCheck(w)) /\ WF_vars(Lines(w)) /\ WF_vars(Step(w))

\* Two connections whose workers can be preempted inside the statements of
\* lines 110 and 161 and of debouncer.py 73.
StatsNext ==
    \/ \E w \in Workers : events_in < MaxEvents /\ ReadReceived(w)
    \/ \E w \in Workers : ReadTriggered(w)
    \/ \E w \in Workers : ReadTriggeredGestures(w)
    \/ Next

StatsSpec == Init /\ [][StatsNext]_vars

TypeOK ==
    /\ now \in 0..ScenarioEnd
    /\ DOMAIN last_triggers \subseteq Keys
    /\ DOMAIN gesture_start_times \subseteq Keys
    /\ pc \in [Workers -> {"idle", "hold", "hold_write", "debounce",
                           "debounce_write", "resolve", "dispatch"}]
    /\ stat_read \in [Workers -> {NotRead} \cup Nat]
    /\ socket_running \in BOOLEAN
    /\ client_closed \in BOOLEAN
    /\ acceptor \in {"unstarted", "bind", "loop", "accept", "failed",
                      "closed"}
    /\ main \in {"init", "running", "join", "close", "stopped", "raised"}
    /\ rd \in [Workers -> {"off", "loop", "recv", "lines", "closed"}]
    /\ ending \in [Workers -> {"", "eof", "OSError", "UnicodeDecodeError",
                                "shutdown"}]

\* ------------------------------------------------------------------ claims
Abs(n) == IF n < 0 THEN -n ELSE n

SameKeyPairs ==
    {p \in (1..Len(trigger_log)) \X (1..Len(trigger_log)) :
        p[1] < p[2] /\ trigger_log[p[1]].key = trigger_log[p[2]].key}

Gap(p) == trigger_log[p[2]].at - trigger_log[p[1]].at

\* C1: under SeqSpec (the calls of should_trigger form a sequence), any two
\* calls for the same key that returned True are at least the cooldown apart
\* (the cooldown the later call compared against).
C1_TriggersCooldownApart ==
    \A p \in SameKeyPairs : Gap(p) >= trigger_log[p[2]].cooldown

\* Two triggers of one key exactly one positive cooldown apart.
C1_Witness ==
    \E p \in SameKeyPairs :
        trigger_log[p[2]].cooldown > 0 /\ Gap(p) = trigger_log[p[2]].cooldown

\* C2: should_trigger is atomic with respect to concurrent callers: two
\* workers never both get True for the same key within one cooldown window.
C2_NoDoubleTriggerAcrossWorkers ==
    \A p \in SameKeyPairs :
        trigger_log[p[1]].worker # trigger_log[p[2]].worker
            => Abs(Gap(p)) >= trigger_log[p[2]].cooldown

GatesPassedAt(label) ==
    CASE label = "idle" -> << >>
      [] label \in {"hold", "hold_write"} -> << "confidence" >>
      [] label \in {"debounce", "debounce_write"} -> << "confidence", "hold" >>
      [] label = "resolve" -> << "confidence", "hold", "debounce" >>
      [] label = "dispatch" -> << "confidence", "hold", "debounce", "mapping" >>

\* C3: a call consults the hold gate only after its event passed the
\* confidence check (confidence >= threshold), the debounce gate only after
\* the hold gate reported satisfied (duration >= min_hold_time), the mapping
\* only after should_trigger returned True (no last trigger, or elapsed >=
\* cooldown), and dispatches only after a mapping for the event was found.
C3_DispatchOnlyAfterAllGates ==
    \A w \in Workers :
        /\ [i \in 1..Len(stages[w]) |-> stages[w][i].gate] = GatesPassedAt(pc[w])
        /\ \A i \in 1..Len(stages[w]) :
              LET passed == stages[w][i] IN
              /\ passed.gate = "confidence"
                   => /\ passed.value = gesture_data[w].confidence
                      /\ passed.value >= passed.limit
              /\ passed.gate = "hold" => passed.value >= passed.limit
              /\ passed.gate = "debounce"
                   => passed.fresh \/ passed.value >= passed.limit
              /\ passed.gate = "mapping"
                   => /\ passed.value = gesture_data[w].gesture
                      /\ passed.limit \in {"Either", gesture_data[w].hand}
                      /\ mapping[w] # None

\* A call passed all four gates and is about to execute its action.
C3_Witness ==
    \E w \in Workers :
        /\ pc[w] = "dispatch"
        /\ Len(stages[w]) = 4
        /\ stats.actions_triggered > 0

\* C4: an update_gesture call that finds no hold state for its key writes the
\* time it read as the key's start time and returns (False, 0), whatever
\* min_hold_time is; the handler then returns None.
C4_FirstObservationRejected ==
    [][\A w \in Workers :
         LET key == KeyOf(gesture_data[w]) IN
         /\ (pc[w] = "hold" /\ pc'[w] # "hold"
                /\ key \notin DOMAIN gesture_start_times)
              => /\ pc'[w] = "hold_write"
                 /\ current_time'[w] = now
         /\ (pc[w] = "hold_write" /\ pc'[w] # "hold_write")
              => /\ key \in DOMAIN gesture_start_times'
                 /\ gesture_start_times'[key] = current_time[w]
                 /\ hold_ret'[w] = [is_valid |-> FALSE, hold_duration |-> 0]
                 /\ pc'[w] = "idle"
                 /\ result'[w] = None]_vars

\* A first observation was rejected while min_hold_time was zero.
C4_Witness ==
    \E w \in Workers :
        /\ min_hold_time = 0
        /\ pc[w] = "idle"
        /\ hold_ret[w] = [is_valid |-> FALSE, hold_duration |-> 0]
        /\ result[w] = None
        /\ \E key \in DOMAIN gesture_start_times :
              gesture_start_times[key] = now

\* C5: for a key with hold state, update_gesture returns the time since the
\* start time and is_valid = (that duration >= min_hold_time); the handler
\* goes on to the debounce gate exactly when is_valid.
C5_HoldValidIffDurationReached ==
    [][\A w \in Workers :
         LET key == KeyOf(gesture_data[w]) IN
         (pc[w] = "hold" /\ pc'[w] # "hold" /\ key \in DOMAIN gesture_start_times)
            => LET d == now - gesture_start_times[key] IN
               /\ hold_ret'[w].hold_duration = d
               /\ hold_ret'[w].is_valid = (d >= min_hold_time)
               /\ (pc'[w] = "debounce") = (d >= min_hold_time)
               /\ (pc'[w] = "idle") = (d < min_hold_time)]_vars

\* A hold of exactly min_hold_time (> 0) was accepted.
C5_Witness ==
    \E w \in Workers :
        /\ pc[w] = "debounce"
        /\ min_hold_time > 0
        /\ hold_ret[w] = [is_valid |-> TRUE, hold_duration |-> min_hold_time]

C7_TriggerIffCooldownElapsed ==
    [][\A w \in Workers :
         LET key == KeyOf(gesture_data[w])
             fire == \/ key \notin DOMAIN last_triggers
                     \/ now - last_triggers[key] >= cooldown_seconds
         IN
         /\ (pc[w] = "debounce" /\ pc'[w] # "debounce")
              => /\ (pc'[w] = "debounce_write") = fire
                 /\ (pc'[w] = "idle") = ~fire
                 /\ fire => current_time'[w] = now
                 /\ ~fire => result'[w] = None
         /\ (pc[w] = "debounce_write" /\ pc'[w] # "debounce_write")
              => /\ pc'[w] = "resolve"
                 /\ key \in DOMAIN last_triggers'
                 /\ last_triggers'[key] = current_time[w]]_vars

\* A call exactly one positive cooldown after the key's last trigger
\* returned True and recorded its time.
C7_Witness ==
    \E w \in Workers :
        /\ pc[w] = "resolve"
        /\ cooldown_seconds > 0
        /\ last_triggers[KeyOf(gesture_data[w])] = now
        /\ \E i \in 1..Len(trigger_log) :
              /\ trigger_log[i].key = KeyOf(gesture_data[w])
              /\ trigger_log[i].at = now - cooldown_seconds

\* C8: a should_trigger call that returns False leaves last_triggers as it
\* was, and last_triggers changes only in the step in which a call records
\* its trigger and returns True.
C8_DebouncedCallWritesNothing ==
    [][/\ \A w \in Workers :
            (pc[w] = "debounce" /\ pc'[w] = "idle")
              => last_triggers' = last_triggers
       /\ last_triggers' # last_triggers
            => \E w \in Workers :
                  /\ pc[w] = "debounce_write"
                  /\ pc'[w] = "resolve"
                  /\ triggered_gestures' = triggered_gestures + 1]_vars

\* A call was debounced while its key had a last trigger.
C8_Witness ==
    /\ debounced_gestures > 0
    /\ stats.gestures_debounced > 0
    /\ last_triggers # << >>
    /\ \E w \in Workers : pc[w] = "idle" /\ result[w] = None

\* C9: an event whose confidence is below confidence_threshold never gets
\* past the confidence check, and the step that rejects it leaves both gate
\* maps, the debouncer's counters and every other worker as they were: it
\* changes only the counters gestures_received and gestures_below_threshold,
\* each by one, and returns None.
C9_LowConfidenceTouchesNoGate ==
    [][/\ \A w \in Workers :
            (pc[w] = "idle" /\ pc'[w] # "idle")
              => gesture_data'[w].confidence >= confidence_threshold
       /\ events_in' # events_in
            => \/ \E w \in Workers : pc[w] = "idle" /\ pc'[w] # "idle"
               \/ stats'.gestures_below_threshold
                    = stats.gestures_below_threshold + 1
       /\ stats'.gestures_below_threshold # stats.gestures_below_threshold
            => /\ gesture_start_times' = gesture_start_times
               /\ last_triggers' = last_triggers
               /\ << total_gestures, debounced_gestures, triggered_gestures >>'
                    = << total_gestures, debounced_gestures, triggered_gestures >>
               /\ stats' = [stats EXCEPT
                               !.gestures_received = @ + 1,
                               !.gestures_below_threshold = @ + 1]
               /\ pc' = pc
               /\ \E w \in Workers :
                     /\ pc[w] = "idle"
                     /\ result'[w] = None
                     /\ \A v \in Workers \ {w} : result'[v] = result[v]]_vars

\* Two low-confidence events were processed while the hold gate held state.
C9_Witness ==
    /\ stats.gestures_below_threshold >= 2
    /\ gesture_start_times # << >>

ScenarioOutcomes ==
    << "not_held", "not_held", "dispatched", "debounced", "dispatched" >>

\* C10: under ScenarioSpec (threshold 0.8, min hold 0.5 s, cooldown 2.0 s, a
\* mapping for Open_Palm/Right, empty gates), while the events processed are
\* exactly (Open_Palm, Right, 0.9) at t = 0, 0.3, 0.6, 1.0 and 2.7 s, the
\* first two are rejected by the hold gate, the third is dispatched, the
\* fourth is debounced and the fifth is dispatched.
C10_EndToEndScenario ==
    scenario.on =>
        \A i \in 1..Len(scenario.outcomes) :
            scenario.outcomes[i] = ScenarioOutcomes[i]

\* The five scripted events have all been processed.
C10_Witness ==
    /\ scenario.on
    /\ Len(scenario.outcomes) = Len(ScenarioTimes)
    /\ now = ScenarioTimes[Len(ScenarioTimes)]
    /\ stats.actions_triggered = 2

\* The mappings of a list that are for an event: same gesture, and the hand
\* of the event or 'Either'.
MappingsFor(mappings, event) ==
    {i \in 1..Len(mappings) :
        /\ mappings[i].gesture = event.gesture
        /\ mappings[i].hand \in {"Either", event.hand}}

\* m is what a first-match lookup of the event in the list gives.
IsFirstMatch(mappings, event, m) ==
    IF MappingsFor(mappings, event) = {} THEN m = None
    ELSE \E i \in MappingsFor(mappings, event) :
            /\ m = mappings[i]
            /\ \A j \in MappingsFor(mappings, event) : i <= j

\* C11: after a load_config that returned False, and with no reload running,
\* the mappings and the three settings the pipeline reads are those of the
\* last load that returned True.
C11_FailedLoadKeepsConfiguration ==
    (rpc = "idle" /\ ~loaded) =>
        /\ gesture_mappings = last_good.gesture_mappings
        /\ confidence_threshold = last_good.confidence_threshold
        /\ cooldown_seconds = last_good.cooldown_seconds
        /\ min_hold_time = last_good.min_hold_time

\* Everything the running call of worker w has read from the configuration
\* so far is what configuration config says.
ReadsFit(w, config) ==
    \A i \in 1..Len(stages[w]) :
        LET passed == stages[w][i] IN
        /\ passed.gate = "confidence"
             => passed.limit = config.confidence_threshold
        /\ passed.gate = "hold" => passed.limit = config.min_hold_time
        /\ passed.gate = "debounce"
             => passed.fresh \/ passed.limit = config.cooldown_seconds
        /\ passed.gate = "mapping"
             => IsFirstMatch(config.gesture_mappings, gesture_data[w],
                             mapping[w])

\* C12: whatever a process_gesture call has read of the configuration
\* (threshold, min hold time, cooldown, mapping) is what one single
\* configuration that was loaded says, also while a reload is running.
C12_CallReadsOneConfiguration ==
    \A w \in Workers : \E config \in installed : ReadsFit(w, config)

\* C13: the mapping a call resolved is one of the configuration of that
\* moment, no reload changes it while the call is at the dispatch, and the
\* action executed (and reported in the result) is the action of that
\* mapping.
C13_DispatchUsesResolvedMapping ==
    [][\A w \in Workers :
         /\ (pc[w] = "resolve" /\ pc'[w] = "dispatch")
              => \E i \in 1..Len(gesture_mappings) :
                    mapping'[w] = gesture_mappings[i]
         /\ (pc[w] = "dispatch" /\ pc'[w] = "dispatch")
              => mapping'[w] = mapping[w]
         /\ (pc[w] = "dispatch" /\ pc'[w] = "idle")
              => /\ executed'[w].action = mapping[w].action
                 /\ executed'[w].calls = 1
                      => /\ result'[w].entity_id = mapping[w].action.entity_id
                         /\ result'[w].service
                              = Domain(mapping[w].action.entity_id) \o "."
                                   \o mapping[w].action.service]_vars

\* A call executed the action of its mapping after a reload had completed
\* and replaced the mappings by ones without that action.
C13_Witness ==
    \E w \in Workers :
        /\ executed[w] # None
        /\ executed[w].superseded
        /\ executed[w].calls = 1
        /\ result[w].entity_id = executed[w].action.entity_id
        /\ rpc = "idle"
        /\ loaded
        /\ \A i \in 1..Len(gesture_mappings) :
              gesture_mappings[i].action # executed[w].action

\* C14: the lookup of a call gives the first mapping, in the order of the
\* list, with the gesture of the event and with hand 'Either' or the hand of
\* the event; with no such mapping it gives None and the call returns None.
C14_FirstMatchingMappingWins ==
    [][\A w \in Workers :
         (pc[w] = "resolve" /\ pc'[w] # "resolve")
           => LET hits == MappingsFor(gesture_mappings, gesture_data[w]) IN
              IF hits = {}
              THEN pc'[w] = "idle" /\ result'[w] = None
              ELSE /\ pc'[w] = "dispatch"
                   /\ \E i \in hits :
                         /\ mapping'[w] = gesture_mappings[i]
                         /\ \A j \in hits : i <= j]_vars

\* A Right-hand event resolved to an 'Either' mapping listed before a 'Right'
\* mapping for the same gesture.
C14_Witness ==
    \E w \in Workers :
        /\ pc[w] = "dispatch"
        /\ gesture_data[w].hand = "Right"
        /\ mapping[w].hand = "Either"
        /\ \E i, j \in 1..Len(gesture_mappings) :
              /\ i < j
              /\ gesture_mappings[i] = mapping[w]
              /\ gesture_mappings[j].gesture = gesture_data[w].gesture
              /\ gesture_mappings[j].hand = "Right"

\* C15: an event that passed the gates and has no mapping makes the call
\* return None; that step makes no call_service, calls no action callback and
\* leaves all of stats (triggered, succeeded, failed) as it was.
C15_UnmappedStopsSilently ==
    [][\A w \in Workers :
         (pc[w] = "resolve" /\ pc'[w] # "resolve"
            /\ MappingsFor(gesture_mappings, gesture_data[w]) = {})
           => /\ pc'[w] = "idle"
              /\ result'[w] = None
              /\ service_calls' = service_calls
              /\ executed'[w] = None
              /\ action_seen'[w] = None
              /\ callback_errors' = callback_errors
              /\ stats' = stats]_vars

\* Every call has returned, and one that should_trigger let through was not
\* counted as triggered: it had no mapping.
C15_Witness ==
    /\ \A w \in Workers : pc[w] = "idle"
    /\ triggered_gestures > stats.actions_triggered
    /\ \E w \in Workers : result[w] = None /\ action_seen[w] = None

\* C16: a dispatch whose action has no or an empty entity_id or service
\* returns a result with success = False and makes no call_service.
C16_MalformedActionMakesNoCall ==
    [][\A w \in Workers :
         (/\ pc[w] = "dispatch" /\ pc'[w] = "idle"
          /\ \/ mapping[w].action.entity_id \in {Absent, ""}
             \/ mapping[w].action.service \in {Absent, ""})
           => /\ result'[w].success = FALSE
              /\ service_calls' = service_calls
              /\ executed'[w].calls = 0]_vars

\* An action without service was dispatched: the result is a failure and
\* call_service has never been called.
C16_Witness ==
    \E w \in Workers :
        /\ executed[w] # None
        /\ executed[w].action.service = Absent
        /\ result[w].success = FALSE
        /\ service_calls = 0
        /\ stats.actions_failed > 0

\* C17: a dispatch always returns a result; when the action is malformed or
\* the request does not answer 200 the result has success = False, the step
\* adds one to actions_failed and to no other counter, and the action callback
\* is called with that result.
C17_FailureIsReturnedCountedForwarded ==
    [][\A w \in Workers :
         (pc[w] = "dispatch" /\ pc'[w] = "idle")
           => /\ result'[w] # None
              /\ result'[w] # Raised
              /\ result'[w].success \in BOOLEAN
              /\ action_seen'[w] = result'[w]
              /\ (executed'[w].calls = 0 \/ executed'[w].outcome # "ok")
                   => /\ result'[w].success = FALSE
                      /\ stats' = [stats EXCEPT !.actions_failed = @ + 1]]_vars

\* A request timed out: the call returned the failure, counted it and handed
\* it to the action callback.
C17_Witness ==
    \E w \in Workers :
        /\ executed[w] # None
        /\ executed[w].outcome = "timeout"
        /\ result[w].success = FALSE
        /\ action_seen[w] = result[w]
        /\ stats.actions_failed > 0

\* C18: call_service is called only by a dispatch step, at most once per
\* such step, so there are never more calls than events that reached the
\* dispatch.
C18_NoRetry ==
    [][/\ service_calls' <= service_calls + 1
       /\ service_calls' # service_calls
            => \E w \in Workers : pc[w] = "dispatch" /\ pc'[w] = "idle"
       /\ service_calls' <= stats'.actions_triggered]_vars

\* A request that failed was made once.
C18_Witness ==
    \E w \in Workers :
        /\ executed[w] # None
        /\ executed[w].outcome = "status"
        /\ executed[w].calls = 1
        /\ service_calls = 1
        /\ stats.actions_triggered = 1
        /\ stats.actions_failed = 1

\* C19: the gesture callback is called once in the step that takes an event
\* in and in no other step, whether it raises or not and whatever becomes of
\* the event, and when it is called the call has passed no gate and touched
\* neither the hold state nor the debounce state.
C19_GestureCallbackOncePerEvent ==
    [][/\ gesture_notified' = events_in'
       /\ events_in' # events_in
            => /\ gesture_notified' = gesture_notified + 1
               /\ gesture_start_times' = gesture_start_times
               /\ last_triggers' = last_triggers
               /\ total_gestures' = total_gestures
               /\ \E w \in Workers :
                     /\ pc[w] = "idle"
                     /\ stages[w] = << >>
                     /\ Len(stages'[w]) <= 1]_vars

\* Events were rejected by the confidence check, by the hold gate and
\* dispatched, callbacks raised, and each event was broadcast once.
C19_Witness ==
    /\ gesture_notified >= 3
    /\ callback_errors.gesture >= 1
    /\ stats.gestures_below_threshold >= 1
    /\ stats.actions_triggered >= 1
    /\ \A w \in Workers : pc[w] = "idle"

\* C20: the step that takes an event in and the step that dispatches do the
\* same whether the callback they call raises or returns: the first counts
\* the event and either rejects it for its confidence (returning None) or
\* hands it to the hold gate, the second counts the outcome of the action and
\* returns the result of the action; neither touches the gates.
C20_RaisingCallbackChangesNothing ==
    [][/\ events_in' # events_in
            => /\ stats'.gestures_received = stats.gestures_received + 1
               /\ gesture_start_times' = gesture_start_times
               /\ last_triggers' = last_triggers
               /\ \E w \in Workers :
                     /\ pc[w] = "idle"
                     /\ \/ /\ pc'[w] = "hold"
                           /\ gesture_data'[w].confidence >= confidence_threshold
                           /\ stats' = [stats EXCEPT !.gestures_received = @ + 1]
                        \/ /\ pc'[w] = "idle"
                           /\ result'[w] = None
                           /\ stats' = [stats EXCEPT
                                           !.gestures_received = @ + 1,
                                           !.gestures_below_threshold = @ + 1]
       /\ \A w \in Workers :
            (pc[w] = "dispatch" /\ pc'[w] = "idle")
              => /\ result'[w] = action_seen'[w]
                 /\ result'[w] # Raised
                 /\ gesture_start_times' = gesture_start_times
                 /\ last_triggers' = last_triggers
                 /\ stats' = Inc(stats, IF result'[w].success
                                        THEN "actions_succeeded"
                                        ELSE "actions_failed")]_vars

\* Every gesture callback raised and an action callback raised, and still an
\* event was dispatched and its result returned.
C20_Witness ==
    /\ callback_errors.gesture = gesture_notified
    /\ callback_errors.action >= 1
    /\ stats.actions_succeeded >= 1
    /\ \E w \in Workers : pc[w] = "idle" /\ result[w] # None
                            /\ result[w].success

\* ------------------------------------------------- claims on the connections
\* The bytes of the peer that recv has returned so far.
Received(w) == SubSeq(sent[w], 1, Len(sent[w]) - Len(wire[w]))

LineEnd(text) ==
    CHOOSE i \in 1..Len(text) :
        text[i] = NL /\ \A j \in 1..(i - 1) : text[j] # NL

\* What becomes of the newline-terminated lines of a text, one after the
\* other: nothing for a blank line, Invalid for a line that is not JSON, the
\* event otherwise.  Text after the last newline is no line.
RECURSIVE Outcomes(_)
Outcomes(text) ==
    IF ~Has(text, NL) THEN << >>
    ELSE LET i == LineEnd(text)
             line == SubSeq(text, 1, i - 1)
         IN
         (IF strip(line) = << >> THEN << >>
          ELSE IF IsJSON(line) THEN << loads(line) >>
          ELSE << Invalid >>) \o Outcomes(Drop(text, i))

IsPrefix(short, long) ==
    Len(short) <= Len(long) /\ short = SubSeq(long, 1, Len(short))

\* C21: a line that is not valid JSON is logged and skipped and the
\* connection stays open (the handler goes on with the rest of the buffer);
\* whenever the handler is back at its read, every non-blank line received
\* so far has been handled in order, the lines after an invalid one included.
C21_BadLineIsSkipped ==
    [][\A w \in Workers :
          /\ (/\ Len(delivered'[w]) > Len(delivered[w])
              /\ delivered'[w][Len(delivered'[w])] = Invalid)
                => /\ rd'[w] = "lines"
                   /\ ending'[w] = ""
                   /\ buffer'[w] = Drop(buffer[w], LineEnd(buffer[w]))
          /\ rd'[w] \in {"loop", "recv"}
                => delivered'[w] = Outcomes(decode(Received(w)'))]_vars

\* An event, a line that is not JSON, and the event after it, all handled.
C21_Witness ==
    \E w \in Workers :
        /\ delivered[w] = << EventB, Invalid, EventB >>
        /\ rd[w] \in {"loop", "recv"}
        /\ pc[w] = "idle"

\* C22: what a connection hands to process_gesture depends on the bytes only,
\* not on how recv cuts them: once the peer has sent everything and closed
\* (no read error, no shutdown), the lines handled are the lines of the whole
\* stream, each once and in order.
C22_ChunkingDoesNotMatter ==
    \A w \in Workers :
        (rd[w] = "closed" /\ ending[w] \notin {"OSError", "shutdown"})
            => delivered[w] = Outcomes(decode(sent[w]))

\* C23: when the peer disconnects or a read fails the handler ends, the
\* connection is closed and the buffer is dropped: what was handled is what
\* the newline-terminated lines received give, text after the last newline
\* is in no call of process_gesture, then or later.
C23_UnterminatedTextIsDiscarded ==
    \A w \in Workers :
        (rd[w] = "closed" /\ ending[w] \in {"eof", "OSError"})
            => /\ buffer[w] = << >>
               /\ delivered[w] = Outcomes(decode(Received(w)))

\* The peer closed after an event text without a newline; only the event of
\* the terminated line was handled.
C23_Witness ==
    \E w \in Workers :
        /\ rd[w] = "closed"
        /\ ending[w] = "eof"
        /\ wire[w] = << >>
        /\ sent[w][Len(sent[w])] = "b"
        /\ delivered[w] = << EventB >>

\* ------------------------------------------------------ claims on the server
Active == {"loop", "recv", "lines"}

\* C24: the events of one connection are processed one at a time and in the
\* order of arrival: a line is handed to process_gesture only when the call
\* for the line before it has returned, and what a connection has handled is
\* always a beginning of what its stream holds.  Calls of different
\* connections overlap (the witness).
C24_OneConnectionInOrder ==
    [][\A w \in Workers :
          /\ IsPrefix(delivered'[w], Outcomes(decode(sent[w])))
          /\ delivered'[w] # delivered[w]
                => /\ pc[w] = "idle"
                   /\ Len(delivered'[w]) = Len(delivered[w]) + 1
                   /\ \A v \in Workers \ {w} : delivered'[v] = delivered[v]
                                                  /\ pc'[v] = pc[v]]_vars

\* Both connections are inside process_gesture at once, one of them with its
\* second event.
C24_Witness ==
    /\ \A w \in Workers : pc[w] # "idle"
    /\ \E w \in Workers : delivered[w] = << EventB, EventA >>

\* C25: while a worker is in a dispatch, the acceptor is not held up (its
\* next step is enabled) and neither is the handler of any other open
\* connection, whatever it has to do next.
C25_DispatchBlocksNobodyElse ==
    \A w \in Workers :
        pc[w] = "dispatch"
            => /\ acceptor \in {"loop", "accept"} => ENABLED Acceptor
               /\ \A v \in Workers \ {w} :
                     rd[v] \in Active => ENABLED (Reader(v) \/ Step(v))

\* One worker is in the dispatch of a real action while the acceptor waits in
\* accept and the other connection's worker is in the middle of a call.
C25_Witness ==
    \E w \in Workers, v \in Workers :
        /\ pc[w] = "dispatch"
        /\ ~Malformed(mapping[w].action)
        /\ acceptor = "accept"
        /\ pc[v] \in {"hold", "hold_write"}

\* C26: once stop_socket_server has been called (socket_running is False),
\* the acceptor accepts no further connection.
C26_NoAcceptAfterStop ==
    [][(\E w \in Workers : rd[w] = "off" /\ rd'[w] # "off")
          => socket_running]_vars

\* C27: after the shutdown request every connection's handler eventually
\* ends and closes its connection.
C27_WorkersStopAfterShutdown ==
    (main \notin {"init", "running"})
        ~> (\A w \in Workers : rd[w] \in {"off", "closed"})

\* C28: cleanup does not run ha_client.close() while a worker is still in a
\* dispatch.
C28_CleanupWaitsForDispatch ==
    [][(main = "close" /\ main' # "close")
          => \A w \in Workers : pc[w] # "dispatch"]_vars

\* C29: the system is not in its running state with a listener that failed
\* to bind.
C29_BindFailureIsFatal == ~(main = "running" /\ acceptor = "failed")

\* C30: with calls from different connections interleaved in any way, once
\* no call is running gestures_received equals the number of process_gesture
\* calls made.
C30_CountersAreExact ==
    (\A w \in Workers : pc[w] = "idle" /\ stat_read[w] = NotRead)
        => stats.gestures_received = events_in

\* What the configuration document must have for a load to succeed.
WellFormedMapping(m) ==
    /\ \A field \in {"name", "gesture", "hand", "action"} : field \in DOMAIN m
    /\ m.hand \in {"Left", "Right", "Either"}
    /\ m.action.entity_id # Absent
    /\ m.action.service # Absent

WellFormed(config) ==
    /\ {"mcp_url", "token_env_var"} \subseteq config.homeassistant
    /\ "confidence_threshold" \in DOMAIN config
    /\ config.confidence_threshold \in 0..10
    /\ \A i \in 1..Len(config.gesture_mappings) :
          WellFormedMapping(config.gesture_mappings[i])

OutOfRangeEdit ==
    /\ last_call' # last_call
    /\ last_call' # None
    /\ last_call'.op \in {"remove_gesture_mapping", "update_gesture_mapping"}
    /\ last_call'.args[1] \notin 0..(Len(gesture_mappings) - 1)

\* C40: while the latest load is a successful one, whatever
\* add_gesture_mapping, update_gesture_mapping and remove_gesture_mapping
\* did since, every stored mapping has name, gesture, hand and action and a
\* hand of Left, Right or Either, and get_mapping_for_gesture raises on
\* none; a remove or update with an index out of range returns False and
\* leaves the list as it is.
C40_StoredMappingsStayValid ==
    [][/\ loaded' =>
            /\ \A i \in 1..Len(gesture_mappings') :
                  LET m == gesture_mappings'[i] IN
                  /\ {"name", "gesture", "hand", "action"} \subseteq DOMAIN m
                  /\ m.hand \in {"Left", "Right", "Either"}
            /\ last_call' # None =>
                  (last_call'.op = "get_mapping_for_gesture"
                      => last_call'.ret # Raised)
       /\ OutOfRangeEdit =>
            /\ last_call'.ret = FALSE
            /\ gesture_mappings' = gesture_mappings
      ]_vars

\* The step is a call of op for key: it is the latest call afterwards, and
\* it was not before or the step took the key out of dict.
IsGateCall(op, key, dict) ==
    /\ last_call' = GateCall(op, key)
    /\ \/ last_call # last_call'
       \/ key \in DOMAIN dict /\ key \notin DOMAIN dict'

\* Worker w ends an update_gesture call for key in this step.
UpdateEnds(w, key) ==
    /\ pc[w] \in {"hold", "hold_write"}
    /\ pc'[w] \notin {"hold", "hold_write"}
    /\ KeyOf(gesture_data[w]) = key

\* C32: clear_gesture(key) removes the start time of key and of no other
\* key; the update_gesture call for key that ends next, whatever the start
\* time was before the clear, returns (False, 0), records the time it read
\* as the new start time and makes process_gesture return None.
C32_ClearRestartsHoldTimer ==
    [][\A key \in Keys :
         /\ IsGateCall("clear_gesture", key, gesture_start_times)
              => /\ key \notin DOMAIN gesture_start_times'
                 /\ \A other \in Keys \ {key} :
                       /\ other \in DOMAIN gesture_start_times'
                            <=> other \in DOMAIN gesture_start_times
                       /\ other \in DOMAIN gesture_start_times
                            => gesture_start_times'[other]
                                 = gesture_start_times[other]
         /\ \A w \in Workers :
               (/\ last_call = GateCall("clear_gesture", key)
                /\ key \notin DOMAIN gesture_start_times
                /\ UpdateEnds(w, key))
                 => /\ hold_ret'[w] = [is_valid |-> FALSE, hold_duration |-> 0]
                    /\ key \in DOMAIN gesture_start_times'
                    /\ gesture_start_times'[key] = current_time[w]
                    /\ result'[w] = None
                    /\ pc'[w] = "idle"]_vars

\* Two events above the threshold came in, the second after a clear of its
\* key and late enough to satisfy the hold from the time of the first; it
\* was rejected and its time is the only start time there is.
C32_Witness ==
    \E key \in Keys :
        /\ last_call = GateCall("clear_gesture", key)
        /\ min_hold_time > 0
        /\ now >= min_hold_time
        /\ events_in = 2
        /\ stats.gestures_below_threshold = 0
        /\ total_gestures = 0
        /\ hold_ret[FirstWorker] = [is_valid |-> FALSE, hold_duration |-> 0]
        /\ pc[FirstWorker] = "idle"
        /\ DOMAIN gesture_start_times = {key}
        /\ gesture_start_times[key] = now

\* C33: no step removes a start time or makes it later, so a start time t0,
\* once recorded, stays the latest the key is ever judged against, and every
\* update_gesture call for the key at a time >= t0 + min_hold_time passes
\* the hold-time gate.
C33_StartTimePersists ==
    [][/\ \A key \in DOMAIN gesture_start_times :
            /\ key \in DOMAIN gesture_start_times'
            /\ gesture_start_times'[key] <= gesture_start_times[key]
       /\ \A w \in Workers :
            LET key == KeyOf(gesture_data[w]) IN
            (/\ pc[w] = "hold"
             /\ pc'[w] # "hold"
             /\ key \in DOMAIN gesture_start_times
             /\ now >= gesture_start_times[key] + min_hold_time)
              => pc'[w] = "debounce"]_vars

\* The stats counters other than gestures_received.
OtherCounters ==
    << stats.gestures_below_threshold, stats.gestures_debounced,
       stats.actions_triggered, stats.actions_succeeded, stats.actions_failed >>

\* C34: the call of an event that the hold-time gate rejects changes no
\* counter of stats but gestures_received (in its first step, by one),
\* leaves last_triggers and the debouncer's counters as they were, makes no
\* call_service and no action callback, and returns None.
C34_HoldRejectionTouchesNothingElse ==
    [][\A w \in Workers :
         /\ (pc[w] = "idle" /\ pc'[w] = "hold")
              => /\ OtherCounters' = OtherCounters
                 /\ stats'.gestures_received = stats.gestures_received + 1
                 /\ UNCHANGED << last_triggers, total_gestures,
                                 debounced_gestures, triggered_gestures,
                                 service_calls >>
         /\ (pc[w] \in {"hold", "hold_write"}
                /\ pc'[w] \in {"hold_write", "idle"}
                /\ pc'[w] # pc[w])
              => /\ stats' = stats
                 /\ UNCHANGED << last_triggers, total_gestures,
                                 debounced_gestures, triggered_gestures,
                                 service_calls, trigger_log >>
                 /\ pc'[w] = "idle"
                      => /\ result'[w] = None
                         /\ action_seen'[w] = None
                         /\ executed'[w] = None]_vars

\* The latest call of a worker was rejected by the hold-time gate (every
\* call got as far as that gate) while the debouncer held state and a
\* dispatch had been counted.
C34_Witness ==
    \E w \in Workers :
        /\ pc[w] = "idle"
        /\ result[w] = None
        /\ hold_ret[w] # None
        /\ ~hold_ret[w].is_valid
        /\ stats.gestures_below_threshold = 0
        /\ last_triggers # << >>
        /\ stats.actions_triggered > 0
        /\ gesture_data[w] = None

\* C35: whenever no call is between counting an action as triggered and
\* counting its result, actions_triggered = actions_succeeded +
\* actions_failed.
C35_TriggeredIsSucceededPlusFailed ==
    (\A w \in Workers : pc[w] # "dispatch" /\ stat_read[w] = NotRead)
        => stats.actions_triggered
             = stats.actions_succeeded + stats.actions_failed

\* C36: a call gets to the mapping lookup only with its key's last trigger
\* recorded and counted by the debouncer, mapping or not, so that
\* actions_triggered never exceeds the debouncer's triggered_gestures.
C36_DebounceConsumedBeforeLookup ==
    /\ \A w \in Workers :
          pc[w] \in {"resolve", "dispatch"}
            => KeyOf(gesture_data[w]) \in DOMAIN last_triggers
    /\ stats.actions_triggered <= triggered_gestures

\* key has the same entry, or none, in dict before and after the step.
SameEntry(dict, dictAfter, key) ==
    /\ key \in DOMAIN dictAfter <=> key \in DOMAIN dict
    /\ key \in DOMAIN dict => dictAfter[key] = dict[key]

\* The step leaves the hold state and the debounce state of every key but
\* key as they were.
OthersKept(key) ==
    \A other \in Keys \ {key} :
        /\ SameEntry(gesture_start_times, gesture_start_times', other)
        /\ SameEntry(last_triggers, last_triggers', other)

\* C37: a step of update_gesture, should_trigger, clear_gesture or
\* reset_gesture for one key leaves the start time and the last trigger of
\* every other key as they were, and what update_gesture and should_trigger
\* decide is a function of the clock, the configured duration and the entry
\* of their own key.
C37_GateStateIsPerKey ==
    [][/\ \A w \in Workers :
            LET key == KeyOf(gesture_data[w]) IN
            /\ (pc[w] \in {"hold", "hold_write", "debounce", "debounce_write"}
                   /\ pc'[w] # pc[w])
                 => OthersKept(key)
            /\ (pc[w] = "hold" /\ pc'[w] # "hold")
                 => pc'[w] =
                       IF key \notin DOMAIN gesture_start_times
                       THEN "hold_write"
                       ELSE IF now - gesture_start_times[key] >= min_hold_time
                       THEN "debounce" ELSE "idle"
            /\ (pc[w] = "debounce" /\ pc'[w] # "debounce")
                 => pc'[w] =
                       IF /\ key \in DOMAIN last_triggers
                          /\ now - last_triggers[key] < cooldown_seconds
                       THEN "idle" ELSE "debounce_write"
       /\ \A key \in Keys :
            (\/ IsGateCall("clear_gesture", key, gesture_start_times)
             \/ IsGateCall("reset_gesture", key, last_triggers))
              => OthersKept(key)]_vars

\* reset_gesture has removed the only last trigger there was, that of key,
\* and the start times of key and of the other key are there.
C37_Witness ==
    \E key \in Keys, other \in Keys :
        /\ key # other
        /\ last_call = GateCall("reset_gesture", key)
        /\ triggered_gestures = 1
        /\ last_triggers = << >>
        /\ key \in DOMAIN gesture_start_times
        /\ other \in DOMAIN gesture_start_times

\* C38: two handlers that are given the same events at the same times, and
\* the same answers from Home Assistant, have the same gate states, the same
\* counters and the same returned values, whatever the events' timestamp
\* fields are.
C38_TimestampFieldIsNotRead == twin.a = twin.b

\* Events with different timestamp fields went through both handlers: one
\* was rejected by the hold-time gate, one was debounced, one was dispatched.
C38_Witness ==
    /\ twin.differ
    /\ Len(twin.a.returned) = MaxEvents
    /\ twin.a.stats.actions_triggered = 1
    /\ twin.a.stats.gestures_debounced = 1
    /\ twin.a.stats.gestures_below_threshold = 0

\* A step of a reload_config whose load succeeded: the load itself or one of
\* the three assignments that follow it.
SuccessfulReloadStep ==
    \/ reloads' # reloads /\ loaded'
    \/ rpc # "idle" /\ rpc' # rpc

\* The gate that worker w leaves in this step judges the entry of the key
\* against the duration the handler has now.
JudgedWithCurrentDurations(w) ==
    LET key == KeyOf(gesture_data[w]) IN
    /\ pc[w] = "hold" /\ pc'[w] # "hold" /\ key \in DOMAIN gesture_start_times
          => hold_ret'[w].is_valid
                = (now - gesture_start_times[key] >= min_hold_time)
    /\ pc[w] = "debounce" /\ pc'[w] # "debounce" /\ key \in DOMAIN last_triggers
          => (pc'[w] = "idle")
                = (now - last_triggers[key] < cooldown_seconds)

\* C39: a successful reload_config leaves the recorded hold start times, the
\* last-trigger times and every counter as they are, in each of its steps;
\* what it assigns are the settings and mappings of the file, the cooldown,
\* the min hold time and the confidence threshold.  Every gate decision
\* compares the recorded time of its key with the duration of that moment.
C39_ReloadKeepsGateState ==
    [][/\ SuccessfulReloadStep
          => /\ UNCHANGED << gesture_start_times, last_triggers, stats,
                             total_gestures, debounced_gestures,
                             triggered_gestures, pc >>
             /\ gesture_mappings' = last_good'.gesture_mappings
             /\ rpc' = "idle"
                   => /\ cooldown_seconds' = last_good.cooldown_seconds
                      /\ min_hold_time' = last_good.min_hold_time
                      /\ confidence_threshold' = last_good.confidence_threshold
       /\ \A w \in Workers : JudgedWithCurrentDurations(w)]_vars

\* A trigger at time 0 under a cooldown of 1, then a reload that made the
\* cooldown 2, then the same gesture one time unit after the trigger: it is
\* debounced, against the trigger recorded before the reload.
C39_Witness ==
    /\ reloads > 0 /\ loaded /\ rpc = "idle"
    /\ cooldown_seconds = 2
    /\ Len(trigger_log) = 1
    /\ trigger_log[1].cooldown = 1
    /\ last_triggers = Put(<< >>, trigger_log[1].key, trigger_log[1].at)
    /\ pc[FirstWorker] = "idle"
    /\ hold_ret[FirstWorker] = [is_valid |-> TRUE, hold_duration |-> 1]
    /\ now - trigger_log[1].at = 1
    /\ debounced_gestures = 1
    /\ stats.gestures_debounced = 1

====
